---- MODULE Spec2Model ----
(***************************************************************************)
(* Candidate registry: identity normalisation, profile ingestion, manual   *)
(* add and ATS synchronisation over one relational store.                  *)
(*                                                                         *)
(* The store is the variable db, a record with one field per table.  Every *)
(* handler is a sequence of steps; a step that writes is the commit of the *)
(* handler's transaction (PostgreSQL READ COMMITTED: the statements before *)
(* it read committed data, the writes become visible at the commit).       *)
(***************************************************************************)
EXTENDS Integers, Sequences, FiniteSets, TLC

VARIABLES
    db,     \* the relational store: People, LinkedinInfo, Geo, ..., ashby_sync_jobs
    now,    \* wall clock, in minutes
    scr,    \* per caller of scrape_single_profile: position and locals
    add,    \* per request of add_candidate_to_source: position and locals
    syn,    \* per invocation of sync_candidates: position and locals
    nrm,    \* two URLs handed to normalize_linkedin_url and their keys
    cap,    \* what the environment does at most: calls started, requests the provider
            \* answers, candidates a page, the URLs callers hand in, the documents
            \* the profile provider returns
    con,    \* per call of save_integration: position and locals
    scp     \* per run of the script add_person_to_source: position and locals

vars == <<db, now, scr, add, syn, nrm, cap, con, scp>>

-----------------------------------------------------------------------------
(* Bounds of the model *)

\* calls of scrape_single_profile one caller makes
MaxScrapes == 1
\* requests of add_candidate_to_source
MaxAdds == 1
\* rows of People (user_id is the row's index)
MaxPeople == 3

-----------------------------------------------------------------------------
(* Strings.  A URL is the sequence of its lexical pieces; "/", "?" and " "  *)
(* are always pieces of their own, so that rstrip('/'), split('?'),         *)
(* startswith('linkedin.com') and strip() act on pieces exactly as they act *)
(* on characters.  The empty string is << >>; SQL NULL is NullUrl.          *)

NullUrl == <<"NULL">>
EmptyStr == << >>

Https == <<"https:", "/", "/">>
Www == <<"www.">>
Host == <<"linkedin.com">>
Slash == <<"/">>
Query == <<"?", "trk=1">>

InPath(name) == <<"/", "in", "/", name>>

\* str.rstrip(ch)
RECURSIVE rstrip(_, _)
rstrip(s, ch) ==
    IF s # << >> /\ s[Len(s)] = ch THEN rstrip(SubSeq(s, 1, Len(s) - 1), ch) ELSE s

\* str.lstrip(ch)
RECURSIVE lstrip(_, _)
lstrip(s, ch) ==
    IF s # << >> /\ s[1] = ch THEN lstrip(Tail(s), ch) ELSE s

\* str.strip(): leading and trailing blanks removed
strip(s) == lstrip(rstrip(s, " "), " ")

\* str.split(sep)[0]: the part before the first sep
RECURSIVE split_first(_, _)
split_first(s, sep) ==
    IF s = << >> \/ s[1] = sep THEN << >> ELSE <<s[1]>> \o split_first(Tail(s), sep)

\* str.startswith(p)
startswith(s, p) == Len(s) >= Len(p) /\ SubSeq(s, 1, Len(p)) = p

\* LinkedInScraper.normalize_linkedin_url
normalize_linkedin_url(url) ==
    LET u == split_first(rstrip(url, "/"), "?")
    IN  IF startswith(u, Host) THEN Https \o Www \o u ELSE u

-----------------------------------------------------------------------------
(* Variant forms of one logical profile URL: scheme, www., trailing slash   *)
(* and query string, in every combination.                                  *)

ProfileNames == {"x", "y"}

Variant(name, scheme, www, slash, query) ==
    (IF scheme THEN Https ELSE << >>) \o (IF www THEN Www ELSE << >>) \o Host
        \o InPath(name) \o (IF slash THEN Slash ELSE << >>)
        \o (IF query THEN Query ELSE << >>)

VariantsOf(name) ==
    { Variant(name, sc, w, sl, q) : sc \in BOOLEAN, w \in BOOLEAN,
                                    sl \in BOOLEAN, q \in BOOLEAN }

-----------------------------------------------------------------------------
(* Profile documents of the provider.  id 0 is a document without a        *)
(* profile id; an education, position, skill or honor entry is named by    *)
(* its one identifying field, "" when the field is missing.                *)

Docs == <<
    [id |-> 1, firstName |-> "Jane", lastName |-> "Doe", headline |-> "h1",
     geo |-> "g1", educations |-> <<"e1">>, position |-> <<"p1", "p2">>,
     skills |-> <<"s1", "">>, honors |-> <<"t1">>],
    [id |-> 1, firstName |-> "Jane", lastName |-> "Doe", headline |-> "h2",
     geo |-> "g2", educations |-> << >>, position |-> <<"p1">>,
     skills |-> <<"s2">>, honors |-> <<"", "t2">>],
    [id |-> 0, firstName |-> "", lastName |-> "", headline |-> "",
     geo |-> "", educations |-> << >>, position |-> << >>,
     skills |-> << >>, honors |-> << >>],
    [id |-> 2, firstName |-> "Jane", lastName |-> "Roe", headline |-> "h1",
     geo |-> "g1", educations |-> << >>, position |-> << >>,
     skills |-> << >>, honors |-> << >>] >>

DocIds == 1..Len(Docs)

\* the documents of the profile id 1 and the document without a profile id
OneProfileDocs == { i \in DocIds : Docs[i].id <= 1 }

\* URLs handed to scrape_single_profile and add_candidate_to_source
InputUrls ==
    { Variant("x", FALSE, FALSE, FALSE, FALSE),
      Variant("x", TRUE, TRUE, TRUE, FALSE),
      Variant("y", TRUE, TRUE, FALSE, FALSE) }

-----------------------------------------------------------------------------
(* The store *)

MasterId == 1
ManualId == 2

InitDb ==
    [ People |-> << >>,
      LinkedinInfo |-> {},
      Geo |-> {},
      Educations |-> << >>,
      Positions |-> << >>,
      Skills |-> << >>,
      Honors |-> << >>,
      PeopleSources |-> << >>,
      Sources |-> << [name |-> "Master", source_type |-> "master"],
                     [name |-> "Manual List", source_type |-> "manual"] >>,
      ashby_integrations |-> << >>,
      ashby_sync_jobs |-> << >> ]

\* a store without the unique index on the key
NoKeyConstraint(people) == TRUE

\* uniqueness of People.canonical_linkedin_url over its non-NULL values
UniqueKeyOK(people) ==
    \A i, j \in 1..Len(people) :
        (i # j /\ people[i].canonical_linkedin_url # NullUrl)
            => people[i].canonical_linkedin_url # people[j].canonical_linkedin_url

\* a store without the uniqueness of memberships
NoMemberConstraint(ps) == TRUE

\* uniqueness of PeopleSources (user_id, source_id)
UniqueMemberOK(ps) ==
    \A i, j \in 1..Len(ps) :
        i # j => ~(ps[i].user_id = ps[j].user_id /\ ps[i].source_id = ps[j].source_id)

\* user_ids of the rows of People a WHERE clause on the key selects
PeopleByUrl(d, urls) ==
    { i \in 1..Len(d.People) : d.People[i].canonical_linkedin_url \in urls }

\* an except branch that commits what the transaction wrote before it failed
keep_working(before, working) == working

\* conn.rollback(): the transaction's working copy is dropped
rollback(before, working) == before

-----------------------------------------------------------------------------
(* LinkedInScraper *)

MAX_AGE_DAYS == 30
MinutesPerDay == 1440
\* datetime.date(): the day a time falls in
DaysOf(t) == t \div MinutesPerDay
\* last_scraped_at IS NULL
NullTime == -1

\* LinkedInScraper.is_recently_scraped
is_recently_scraped(d, linkedin_url) ==
    \E i \in PeopleByUrl(d, {linkedin_url}) :
        /\ d.People[i].last_scraped_at # NullTime
        /\ DaysOf(now) - DaysOf(d.People[i].last_scraped_at) <= MAX_AGE_DAYS

\* insert_profile_data, no profile id: the person of the URL is marked failed
InsertNoIdTx(d, linkedin_url, t) ==
    LET hit == PeopleByUrl(d, {linkedin_url})
    IN  IF hit # {}
        THEN [d EXCEPT !.People =
                [i \in 1..Len(@) |->
                    IF i \in hit
                    THEN [@[i] EXCEPT !.scrape_status = "failed", !.last_scraped_at = t]
                    ELSE @[i]]]
        ELSE [d EXCEPT !.People =
                Append(@, [canonical_linkedin_url |-> linkedin_url,
                           linkedin_details |-> 0,
                           last_scraped_at |-> t,
                           scrape_status |-> "failed"])]

\* insert_profile_data step 2: update the person found, else insert one
WritePerson(d, existing, doc, normalized_url, t) ==
    IF existing # 0
    THEN [d EXCEPT !.People[existing] =
            [@ EXCEPT !.linkedin_details = doc, !.last_scraped_at = t,
                      !.scrape_status = "scraped",
                      !.canonical_linkedin_url = normalized_url]]
    ELSE [d EXCEPT !.People =
            Append(@, [canonical_linkedin_url |-> normalized_url,
                       linkedin_details |-> doc,
                       last_scraped_at |-> t,
                       scrape_status |-> "scraped"])]

\* insert_profile_data step 3: LinkedinInfo keyed by the profile id
WriteLinkedinInfo(d, user_id, doc) ==
    LET row == [id |-> Docs[doc].id, user_id |-> user_id,
                firstName |-> Docs[doc].firstName, lastName |-> Docs[doc].lastName,
                headline |-> Docs[doc].headline]
    IN  [d EXCEPT !.LinkedinInfo = {r \in @ : r.id # Docs[doc].id} \cup {row}]

\* insert_profile_data step 4: Geo, INSERT ... ON CONFLICT (user_id) DO UPDATE
WriteGeo(d, user_id, doc) ==
    [d EXCEPT !.Geo = {r \in @ : r.user_id # user_id}
                        \cup {[user_id |-> user_id, city |-> Docs[doc].geo]}]

\* the INSERTs without the DELETE before them
AppendRows(rows, user_id, entries) ==
    rows \o [i \in 1..Len(entries) |-> [user_id |-> user_id, v |-> entries[i]]]

\* DELETE FROM <table> WHERE user_id = %s, then one INSERT per entry
ReplaceRows(rows, user_id, entries) ==
    SelectSeq(rows, LAMBDA r : r.user_id # user_id)
        \o [i \in 1..Len(entries) |-> [user_id |-> user_id, v |-> entries[i]]]

\* the entries a loop with "if skill_name:" / "if title:" inserts
NonEmpty(entries) == SelectSeq(entries, LAMBDA e : e # "")

\* insert_profile_data steps 5 to 8
WriteEducations(d, user_id, doc) ==
    [d EXCEPT !.Educations = ReplaceRows(@, user_id, Docs[doc].educations)]

WritePositions(d, user_id, doc) ==
    [d EXCEPT !.Positions = ReplaceRows(@, user_id, Docs[doc].position)]

WriteSkills(d, user_id, doc) ==
    [d EXCEPT !.Skills = ReplaceRows(@, user_id, NonEmpty(Docs[doc].skills))]

WriteHonors(d, user_id, doc) ==
    [d EXCEPT !.Honors = ReplaceRows(@, user_id, NonEmpty(Docs[doc].honors))]

\* insert_profile_data step 9: the membership's URL is set to the normalized URL
UpdatePeopleSources(d, user_id, linkedin_url, normalized_url, source_id) ==
    LET ps == d.PeopleSources
        byUrl == { i \in 1..Len(ps) : /\ ps[i].source_id = source_id
                                      /\ ps[i].linkedin_url \in {linkedin_url, normalized_url} }
        byUser == { i \in 1..Len(ps) : ps[i].source_id = source_id /\ ps[i].user_id = user_id }
        hit == IF byUrl # {} THEN byUrl ELSE byUser
    IN  IF source_id = 0 THEN d
        ELSE [d EXCEPT !.PeopleSources =
                [i \in 1..Len(ps) |->
                    IF i \in hit THEN [ps[i] EXCEPT !.linkedin_url = normalized_url]
                    ELSE ps[i]]]

\* the statements of insert_profile_data after the SELECT of the person, in order
InsertSteps == 1..8

\* the transaction's working copy after its first k statements
RECURSIVE InsertWorking(_, _, _, _, _, _, _)
InsertWorking(k, d, existing, doc, linkedin_url, source_id, t) ==
    LET normalized_url == normalize_linkedin_url(linkedin_url)
        user_id == IF existing # 0 THEN existing ELSE Len(d.People) + 1
        w == InsertWorking(k - 1, d, existing, doc, linkedin_url, source_id, t)
    IN  CASE k = 0 -> d
          [] k = 1 -> WritePerson(w, existing, doc, normalized_url, t)
          [] k = 2 -> WriteLinkedinInfo(w, user_id, doc)
          [] k = 3 -> WriteGeo(w, user_id, doc)
          [] k = 4 -> WriteEducations(w, user_id, doc)
          [] k = 5 -> WritePositions(w, user_id, doc)
          [] k = 6 -> WriteSkills(w, user_id, doc)
          [] k = 7 -> WriteHonors(w, user_id, doc)
          [] k = 8 -> UpdatePeopleSources(w, user_id, linkedin_url, normalized_url, source_id)

\* insert_profile_data from the person's write to the commit.  failAt names
\* the statement the database fails at (0: none); the unique index on the
\* key fails the person's write by itself.
InsertProfileTx(d, existing, doc, linkedin_url, source_id, t, failAt) ==
    LET W(k) == InsertWorking(k, d, existing, doc, linkedin_url, source_id, t)
        conflict == ~UniqueKeyOK(W(1).People)
        failed == IF failAt = 1 \/ conflict THEN 1 ELSE failAt
    IN  IF failed # 0
        THEN [db |-> rollback(d, W(failed - 1)), ok |-> FALSE, user_id |-> 0,
              message |-> IF conflict /\ failAt # 1 THEN "integrity_error" ELSE "db_error"]
        ELSE [db |-> W(8), ok |-> TRUE,
              user_id |-> IF existing # 0 THEN existing ELSE Len(d.People) + 1,
              message |-> ""]

-----------------------------------------------------------------------------
(* scrape_single_profile, one step per access to the store or the provider *)

Scrapers == {"w1", "w2"}

NoResult == [status |-> "none", user_id |-> 0, message |-> ""]

\* scraping_jobs[job_id] as scrape_source_profiles initializes it
NoJob == [successful |-> 0, failed |-> 0]

ScrIdle(left, result) ==
    [pc |-> "idle", left |-> left, url |-> EmptyStr, source_id |-> 0,
     force |-> FALSE, doc |-> 0, existing |-> 0, result |-> result, job |-> NoJob]

\* result['success']: True in the result of a completed scrape only; the
\* result of a freshness skip is {'success': False, ..., 'skipped': True}
Success(result) == result.status = "success"

\* result.get('skipped')
Skipped(result) == result.status = "skipped"

\* the counters of scrape_source_profiles after one result
CountResult(job, result) ==
    IF Success(result) THEN [job EXCEPT !.successful = @ + 1]
    ELSE [job EXCEPT !.failed = @ + 1]

\* the caller's return to idle with the call's result, which the loop of
\* scrape_source_profiles counts
ScrReturn(w, status, user_id, message) ==
    LET result == [status |-> status, user_id |-> user_id, message |-> message]
    IN  scr' = [scr EXCEPT ![w] = [ScrIdle(@.left, result) EXCEPT
                    !.job = CountResult(scr[w].job, result)]]

\* scrape_single_profile up to the freshness check
ScrapeStart(w) ==
    /\ scr[w].pc = "idle"
    /\ scr[w].left > 0 /\ cap.ops > 0
    /\ \E url \in cap.urls, source_id \in {0, ManualId}, force \in BOOLEAN :
        IF ~force /\ is_recently_scraped(db, normalize_linkedin_url(url))
        THEN LET result == [status |-> "skipped", user_id |-> 0, message |-> "recent"]
             IN  scr' = [scr EXCEPT ![w] = [ScrIdle(@.left - 1, result) EXCEPT
                            !.job = CountResult(scr[w].job, result)]]
        ELSE scr' = [scr EXCEPT ![w] = [@ EXCEPT !.pc = "fetch", !.left = @ - 1,
                        !.url = url, !.source_id = source_id, !.force = force,
                        !.result = NoResult]]
    /\ cap' = [cap EXCEPT !.ops = @ - 1]
    /\ UNCHANGED <<db, now, add, syn, nrm, con, scp>>

\* a failed fetch that marks the person of the URL failed
FetchFailMarks(w) ==
    /\ scr[w].pc = "fetch"
    /\ db' = [db EXCEPT !.People =
                [i \in 1..Len(@) |->
                    IF @[i].canonical_linkedin_url = normalize_linkedin_url(scr[w].url)
                    THEN [@[i] EXCEPT !.scrape_status = "failed"] ELSE @[i]]]
    /\ ScrReturn(w, "failed", 0, "provider_error")
    /\ UNCHANGED <<now, add, syn, nrm, cap, con, scp>>

\* fetch_profile_data raises: scrape_single_profile returns the failure
FetchFail(w) ==
    /\ scr[w].pc = "fetch"
    /\ ScrReturn(w, "failed", 0, "provider_error")
    /\ UNCHANGED <<db, now, add, syn, nrm, cap, con, scp>>

\* fetch_profile_data returns a document
FetchOk(w) ==
    /\ scr[w].pc = "fetch"
    /\ \E doc \in cap.docs : scr' = [scr EXCEPT ![w] = [@ EXCEPT !.pc = "insert", !.doc = doc]]
    /\ UNCHANGED <<db, now, add, syn, nrm, cap, con, scp>>

\* insert_profile_data, document without profile id: committed, then raised
InsertNoId(w) ==
    /\ scr[w].pc = "insert"
    /\ Docs[scr[w].doc].id = 0
    /\ PeopleByUrl(db, {scr[w].url}) # {} \/ Len(db.People) < MaxPeople
    /\ db' = InsertNoIdTx(db, scr[w].url, now)
    /\ ScrReturn(w, "failed", 0, "no_profile_id")
    /\ UNCHANGED <<now, add, syn, nrm, cap, con, scp>>

\* insert_profile_data, the SELECT of the person by raw or normalized URL
InsertSelect(w) ==
    /\ scr[w].pc = "insert"
    /\ Docs[scr[w].doc].id # 0
    /\ LET hit == PeopleByUrl(db, {scr[w].url, normalize_linkedin_url(scr[w].url)})
       IN  \E existing \in (IF hit = {} THEN {0} ELSE hit) :
               scr' = [scr EXCEPT ![w] = [@ EXCEPT !.pc = "write", !.existing = existing]]
    /\ UNCHANGED <<db, now, add, syn, nrm, cap, con, scp>>

\* insert_profile_data, the writes and the commit (or the rollback and raise)
InsertWrite(w) ==
    /\ scr[w].pc = "write"
    /\ scr[w].existing # 0 \/ Len(db.People) < MaxPeople
    /\ \E failAt \in {0} \cup InsertSteps :
        LET r == InsertProfileTx(db, scr[w].existing, scr[w].doc, scr[w].url,
                                 scr[w].source_id, now, failAt)
        IN  /\ db' = r.db
            /\ ScrReturn(w, IF r.ok THEN "success" ELSE "failed", r.user_id, r.message)
    /\ UNCHANGED <<now, add, syn, nrm, cap, con, scp>>

-----------------------------------------------------------------------------
(* add_candidate_to_source *)

Adders == {"a1"}

NoCandidate == [id |-> "", linkedin |-> NullUrl, rev |-> 0]

\* Json(data.get('source_metadata', {}))
ManualMetadata == [ashby_candidate_id |-> "", ashby_data |-> NoCandidate]

AddIdle(left, result) ==
    [pc |-> "idle", left |-> left, url |-> EmptyStr, source_id |-> 0, existing |-> 0,
     result |-> result]

\* an upsert of the person: the person found is set back to pending
AddPersonUpsert(d, existing, normalized_url) ==
    IF existing # 0 THEN [d EXCEPT !.People[existing].scrape_status = "pending"]
    ELSE [d EXCEPT !.People =
            Append(@, [canonical_linkedin_url |-> normalized_url,
                       linkedin_details |-> 0,
                       last_scraped_at |-> NullTime,
                       scrape_status |-> "pending"])]

\* add_candidate_to_source: the insert of the person, when none was found
AddPerson(d, existing, normalized_url) ==
    IF existing # 0 THEN d
    ELSE [d EXCEPT !.People =
            Append(@, [canonical_linkedin_url |-> normalized_url,
                       linkedin_details |-> 0,
                       last_scraped_at |-> NullTime,
                       scrape_status |-> "pending"])]

\* INSERT INTO PeopleSources
AddMembership(d, user_id, source_id, linkedin_url, metadata) ==
    [d EXCEPT !.PeopleSources =
        Append(@, [user_id |-> user_id, source_id |-> source_id,
                   linkedin_url |-> linkedin_url, source_metadata |-> metadata])]

\* an add whose membership insert has no except clause of its own: the
\* IntegrityError reaches the outer handler
AddCandidateNoInnerTry(d, existing, linkedin_url, source_id) ==
    LET normalized_url == normalize_linkedin_url(strip(linkedin_url))
        user_id == IF existing # 0 THEN existing ELSE Len(d.People) + 1
        d1 == AddPerson(d, existing, normalized_url)
        d2 == AddMembership(d1, user_id, source_id, normalized_url, ManualMetadata)
    IN  IF ~UniqueKeyOK(d1.People) \/ ~UniqueMemberOK(d2.PeopleSources)
        THEN [db |-> rollback(d, d1), code |-> 500, user_id |-> 0]
        ELSE [db |-> d2, code |-> 201, user_id |-> user_id]

\* add_candidate_to_source from the person's insert to the response
AddCandidateTx(d, existing, linkedin_url, source_id) ==
    LET normalized_url == normalize_linkedin_url(strip(linkedin_url))
        user_id == IF existing # 0 THEN existing ELSE Len(d.People) + 1
        d1 == AddPerson(d, existing, normalized_url)
        d2 == AddMembership(d1, user_id, source_id, normalized_url, ManualMetadata)
    IN  IF ~UniqueKeyOK(d1.People)
        THEN [db |-> rollback(d, d), code |-> 500, user_id |-> 0]
        ELSE IF ~UniqueMemberOK(d2.PeopleSources)
        THEN [db |-> rollback(d, d1), code |-> 409, user_id |-> 0]
        ELSE [db |-> d2, code |-> 201, user_id |-> user_id]

\* the request up to the SELECT of the person
AddStart(a) ==
    /\ add[a].pc = "idle"
    /\ add[a].left > 0 /\ cap.ops > 0
    /\ \E url \in cap.urls \cup {EmptyStr}, source_id \in 1..Len(db.Sources) :
        IF url = EmptyStr \/ db.Sources[source_id].name = "Master"
        THEN add' = [add EXCEPT ![a] = AddIdle(@.left - 1, 400)]
        ELSE LET hit == PeopleByUrl(db, {normalize_linkedin_url(strip(url))})
             IN  \E existing \in (IF hit = {} THEN {0} ELSE hit) :
                    add' = [add EXCEPT ![a] = [@ EXCEPT !.pc = "write", !.left = @ - 1,
                                !.url = url, !.source_id = source_id,
                                !.existing = existing, !.result = 0]]
    /\ cap' = [cap EXCEPT !.ops = @ - 1]
    /\ UNCHANGED <<db, now, scr, syn, nrm, con, scp>>

\* the inserts, then the commit (201) or the rollback (409, 500)
AddWrite(a) ==
    /\ add[a].pc = "write"
    /\ add[a].existing # 0 \/ Len(db.People) < MaxPeople
    /\ LET r == AddCandidateTx(db, add[a].existing, add[a].url, add[a].source_id)
       IN  /\ db' = r.db
           /\ add' = [add EXCEPT ![a] = AddIdle(@.left, r.code)]
    /\ UNCHANGED <<now, scr, syn, nrm, cap, con, scp>>

-----------------------------------------------------------------------------
(* AshbyClient and AshbySyncService *)

\* candidates of the ATS: id, LinkedIn social link (NullUrl: none), data revision
Candidates ==
    { [id |-> "c1", linkedin |-> NullUrl, rev |-> 1],
      [id |-> "c1", linkedin |-> Variant("x", FALSE, FALSE, FALSE, FALSE), rev |-> 2],
      [id |-> "c2", linkedin |-> Variant("x", TRUE, TRUE, TRUE, FALSE), rev |-> 1] }

\* candidates of one page, requests of one run, candidates of one run, jobs in
\* the store
MaxPageLen == 2
MaxPages == 2
MaxCandidates == 3
MaxJobs == 2

\* a URL that is one blank, and the candidate whose LinkedIn link it is
Blank == <<" ">>

BlankCandidate == [id |-> "c3", linkedin |-> Blank, rev |-> 1]

\* candidates without an ATS id, without and with a LinkedIn link
NoIdCandidate == [id |-> "", linkedin |-> NullUrl, rev |-> 1]

NoIdLinked == [id |-> "", linkedin |-> Variant("x", FALSE, FALSE, FALSE, FALSE), rev |-> 1]

\* candidates of other shapes
OtherCandidates == {BlankCandidate, NoIdCandidate, NoIdLinked}

Pages == UNION { [1..n -> Candidates \cup OtherCandidates] : n \in 0..MaxPageLen }

\* sync tokens: "" is None
Tokens == {"", "t1"}

\* what a response says after its results: moreDataAvailable, nextCursor (read
\* only when more data is available), syncToken (read only when none is)
Responses ==
    { [more |-> TRUE, cursor |-> c, token |-> ""] : c \in BOOLEAN }
        \cup { [more |-> FALSE, cursor |-> FALSE, token |-> t] : t \in Tokens }

\* AshbyClient.format_candidate_for_storage
format_candidate_for_storage(c) == [ashby_candidate_id |-> c.id, ashby_data |-> c]

\* the LinkedIn URL of the candidate's social links, NullUrl when there is none
CandidateUrl(c) == c.linkedin

\* "linkedin_url or ''"
OrEmpty(url) == IF url = NullUrl THEN EmptyStr ELSE url

\* "if linkedin_url:"
Truthy(url) == url # NullUrl /\ url # EmptyStr

\* find_existing_candidate, step 1: persons whose membership carries the ATS id
FindByAshbyId(d, c) ==
    IF c.id = "" THEN {}
    ELSE { d.PeopleSources[i].user_id : i \in
            { j \in 1..Len(d.PeopleSources) :
                d.PeopleSources[j].source_metadata.ashby_candidate_id = c.id } }

\* find_existing_candidate, step 2: persons whose key is the normalized URL
FindByUrl(d, c) ==
    IF Truthy(CandidateUrl(c))
    THEN PeopleByUrl(d, {normalize_linkedin_url(CandidateUrl(c))})
    ELSE {}

\* the two lookups in the other order: the key first, the ATS id second
find_by_url_first(d, c) ==
    IF FindByUrl(d, c) # {} THEN FindByUrl(d, c)
    ELSE IF FindByAshbyId(d, c) # {} THEN FindByAshbyId(d, c)
    ELSE {0}

\* a loop that takes the candidates of a page from its end
LastCandidate(page) == page[Len(page)]

\* "for candidate in batch['candidates']": the candidate the loop is at, and
\* the candidates it has still to come to
NextCandidate(page) == Head(page)

RestOf(page) == Tail(page)

\* AshbySyncService.find_existing_candidate: the user_ids fetchone may return
\* (0: None)
find_existing_candidate(d, c) ==
    IF FindByAshbyId(d, c) # {} THEN FindByAshbyId(d, c)
    ELSE IF FindByUrl(d, c) # {} THEN FindByUrl(d, c)
    ELSE {0}

\* SELECT id FROM PeopleSources WHERE user_id = %s AND source_id = %s
IsMember(d, user_id, source_id) ==
    \E i \in 1..Len(d.PeopleSources) :
        d.PeopleSources[i].user_id = user_id /\ d.PeopleSources[i].source_id = source_id

\* an UPDATE that sets linkedin_url and leaves source_metadata as it was
UpdateMembershipUrl(d, user_id, source_id, linkedin_url, metadata) ==
    [d EXCEPT !.PeopleSources =
        [i \in 1..Len(@) |->
            IF @[i].user_id = user_id /\ @[i].source_id = source_id
            THEN [@[i] EXCEPT !.linkedin_url = linkedin_url]
            ELSE @[i]]]

\* UPDATE PeopleSources SET source_metadata, linkedin_url WHERE user_id, source_id
UpdateMembership(d, user_id, source_id, linkedin_url, metadata) ==
    [d EXCEPT !.PeopleSources =
        [i \in 1..Len(@) |->
            IF @[i].user_id = user_id /\ @[i].source_id = source_id
            THEN [@[i] EXCEPT !.source_metadata = metadata, !.linkedin_url = linkedin_url]
            ELSE @[i]]]

\* an existing-person branch whose except clause is missing: the
\* IntegrityError leaves process_candidate
ProcessExistingUncaught(d, c, source_id, existing, member, fail) ==
    LET md == format_candidate_for_storage(c)
        url == OrEmpty(CandidateUrl(c))
        d1 == IF member THEN UpdateMembership(d, existing, source_id, url, md)
              ELSE AddMembership(d, existing, source_id, url, md)
    IN  IF fail \/ ~UniqueMemberOK(d1.PeopleSources)
        THEN [db |-> rollback(d, d), action |-> "raise", user_id |-> 0,
              error |-> IF fail THEN "db_error" ELSE "integrity_error"]
        ELSE [db |-> d1, action |-> "updated", user_id |-> existing, error |-> ""]

\* process_candidate, existing person: update or insert the membership.  fail:
\* the database fails with an error other than IntegrityError, which no except
\* clause of this branch catches (action "raise": the exception leaves
\* process_candidate, the connection is closed uncommitted)
ProcessExistingTx(d, c, source_id, existing, member, fail) ==
    LET md == format_candidate_for_storage(c)
        url == OrEmpty(CandidateUrl(c))
        d1 == IF member THEN UpdateMembership(d, existing, source_id, url, md)
              ELSE AddMembership(d, existing, source_id, url, md)
    IN  IF fail
        THEN [db |-> rollback(d, d), action |-> "raise", user_id |-> 0, error |-> "db_error"]
        ELSE IF ~UniqueMemberOK(d1.PeopleSources)
        THEN [db |-> rollback(d, d), action |-> "skipped", user_id |-> existing, error |-> ""]
        ELSE [db |-> d1, action |-> "updated", user_id |-> existing, error |-> ""]

\* a new-candidate branch that commits the person before it inserts the
\* membership: a failure after that leaves the person
ProcessNewTwoCommits(d, c, source_id, fail) ==
    LET normalized_linkedin_url ==
            IF Truthy(CandidateUrl(c)) THEN normalize_linkedin_url(CandidateUrl(c))
            ELSE NullUrl
        user_id == Len(d.People) + 1
        d1 == AddPerson(d, 0, normalized_linkedin_url)
        d2 == AddMembership(d1, user_id, source_id, OrEmpty(CandidateUrl(c)),
                            format_candidate_for_storage(c))
    IN  IF ~UniqueKeyOK(d1.People)
        THEN [db |-> rollback(d, d1), action |-> "skipped", user_id |-> 0, error |-> ""]
        ELSE IF fail
        THEN [db |-> d1, action |-> "skipped", user_id |-> 0, error |-> ""]
        ELSE [db |-> d2, action |-> "created", user_id |-> user_id, error |-> ""]

\* process_candidate, new candidate: a pending person and its membership; any
\* exception is answered with rollback and 'skipped'
ProcessNewTx(d, c, source_id, fail) ==
    LET normalized_linkedin_url ==
            IF Truthy(CandidateUrl(c)) THEN normalize_linkedin_url(CandidateUrl(c))
            ELSE NullUrl
        user_id == Len(d.People) + 1
        d1 == AddPerson(d, 0, normalized_linkedin_url)
        d2 == AddMembership(d1, user_id, source_id, OrEmpty(CandidateUrl(c)),
                            format_candidate_for_storage(c))
    IN  IF fail \/ ~UniqueKeyOK(d1.People)
        THEN [db |-> rollback(d, d1), action |-> "skipped", user_id |-> 0, error |-> ""]
        ELSE [db |-> d2, action |-> "created", user_id |-> user_id, error |-> ""]

\* the age after which a running job is stale, in minutes
StaleMinutes == 30

\* a sweep that fails every running job, whatever its age
mark_running_jobs_as_failed(d, t) ==
    [d EXCEPT !.ashby_sync_jobs =
        [i \in 1..Len(@) |->
            IF @[i].status = "running"
            THEN [@[i] EXCEPT !.status = "failed", !.error_message = "timeout"]
            ELSE @[i]]]

\* AshbySyncService.mark_stale_jobs_as_failed
mark_stale_jobs_as_failed(d, t) ==
    [d EXCEPT !.ashby_sync_jobs =
        [i \in 1..Len(@) |->
            IF @[i].status = "running" /\ @[i].started_at < t - StaleMinutes
            THEN [@[i] EXCEPT !.status = "failed", !.error_message = "timeout"]
            ELSE @[i]]]

\* AshbySyncService.create_sync_job
create_sync_job(d, integration_id, job_type, t) ==
    [d EXCEPT !.ashby_sync_jobs =
        Append(@, [integration_id |-> integration_id, job_type |-> job_type,
                   status |-> "running", candidates_processed |-> 0,
                   candidates_created |-> 0, candidates_updated |-> 0,
                   candidates_skipped |-> 0, error_message |-> "", started_at |-> t])]

NoStats == [candidates_processed |-> 0, candidates_created |-> 0,
            candidates_updated |-> 0, candidates_skipped |-> 0]

\* an update of the job that writes the counters only together with a status
update_sync_job_final_only(d, job_id, status, error_message, stats) ==
    [d EXCEPT !.ashby_sync_jobs[job_id] =
        IF status = "" THEN @
        ELSE [@ EXCEPT !.status = status,
                  !.error_message = IF status = "failed" THEN error_message ELSE @,
                  !.candidates_processed = stats.candidates_processed,
                  !.candidates_created = stats.candidates_created,
                  !.candidates_updated = stats.candidates_updated,
                  !.candidates_skipped = stats.candidates_skipped]]

\* AshbySyncService.update_sync_job with the counters (status "": not given)
update_sync_job(d, job_id, status, error_message, stats) ==
    [d EXCEPT !.ashby_sync_jobs[job_id] =
        [@ EXCEPT !.status = IF status = "" THEN @ ELSE status,
                  !.error_message = IF status = "failed" THEN error_message ELSE @,
                  !.candidates_processed = stats.candidates_processed,
                  !.candidates_created = stats.candidates_created,
                  !.candidates_updated = stats.candidates_updated,
                  !.candidates_skipped = stats.candidates_skipped]]

\* counters whose else branch counts nothing
CountActionNoSkip(stats, action) ==
    [stats EXCEPT !.candidates_processed = @ + 1,
                  !.candidates_created = IF action = "created" THEN @ + 1 ELSE @,
                  !.candidates_updated = IF action = "updated" THEN @ + 1 ELSE @]

\* the counters after one candidate's action
CountAction(stats, action) ==
    [stats EXCEPT !.candidates_processed = @ + 1,
                  !.candidates_created = IF action = "created" THEN @ + 1 ELSE @,
                  !.candidates_updated = IF action = "updated" THEN @ + 1 ELSE @,
                  !.candidates_skipped =
                        IF action \notin {"created", "updated"} THEN @ + 1 ELSE @]

\* ids of the Sources rows of type 'ashby'
AshbySources(d) == { i \in 1..Len(d.Sources) : d.Sources[i].source_type = "ashby" }

\* an Ashby source is inserted whether or not one exists
create_ashby_source(d) ==
    { [db |-> [d EXCEPT !.Sources =
                Append(@, [name |-> "Ashby Candidates", source_type |-> "ashby"])],
       source_id |-> Len(d.Sources) + 1] }

\* AshbySyncService.create_or_get_ashby_source: the store afterwards and the
\* id returned (LIMIT 1 without ORDER BY: any of the rows)
create_or_get_ashby_source(d) ==
    IF AshbySources(d) # {}
    THEN { [db |-> d, source_id |-> i] : i \in AshbySources(d) }
    ELSE { [db |-> [d EXCEPT !.Sources =
                Append(@, [name |-> "Ashby Candidates", source_type |-> "ashby"])],
            source_id |-> Len(d.Sources) + 1] }

\* get_active_integration without WHERE is_active = true: the last integration
get_latest_integration(d) ==
    IF d.ashby_integrations = << >> THEN {0} ELSE {Len(d.ashby_integrations)}

\* AshbySyncService.get_active_integration: ids fetchone may return (0: None)
get_active_integration(d) ==
    LET act == { i \in 1..Len(d.ashby_integrations) : d.ashby_integrations[i].is_active }
    IN  IF act = {} THEN {0}
        ELSE { i \in act : \A j \in act : j <= i }

\* the rows "UPDATE ashby_integrations SET is_active = false" changes: those
\* committed when the statement starts (READ COMMITTED, the default of
\* psycopg2.connect)
VisibleIntegrations(d) == 1..Len(d.ashby_integrations)

\* save_integration at its commit: the rows of its UPDATE inactive, its own
\* row active
SaveIntegrationTx(d, seen) ==
    [d EXCEPT !.ashby_integrations =
        Append([i \in 1..Len(@) |->
                    IF i \in seen THEN [@[i] EXCEPT !.is_active = FALSE]
                    ELSE @[i]],
               [is_active |-> TRUE, sync_token |-> ""])]

\* AshbySyncService.save_integration with no other transaction at work
save_integration(d) == SaveIntegrationTx(d, VisibleIntegrations(d))

\* the callers of save_integration (the connect_ashby route)
Connectors == {"k1", "k2"}

ConIdle(left, integration_id) ==
    [pc |-> "idle", left |-> left, seen |-> {}, integration_id |-> integration_id]

\* save_integration: the UPDATE that deactivates the integrations
SaveDeactivate(c) ==
    /\ con[c].pc = "idle"
    /\ con[c].left > 0
    /\ con' = [con EXCEPT ![c] = [@ EXCEPT !.pc = "insert", !.left = @ - 1,
                    !.seen = VisibleIntegrations(db), !.integration_id = 0]]
    /\ UNCHANGED <<db, now, scr, add, syn, nrm, cap, scp>>

\* save_integration: the INSERT of the active integration and the commit
SaveInsert(c) ==
    /\ con[c].pc = "insert"
    /\ db' = SaveIntegrationTx(db, con[c].seen)
    /\ con' = [con EXCEPT ![c] = ConIdle(@.left, Len(db.ashby_integrations) + 1)]
    /\ UNCHANGED <<now, scr, add, syn, nrm, cap, scp>>

\* save_integration: the INSERT fails, the transaction is rolled back
SaveFail(c) ==
    /\ con[c].pc = "insert"
    /\ con' = [con EXCEPT ![c] = ConIdle(@.left, 0)]
    /\ UNCHANGED <<db, now, scr, add, syn, nrm, cap, scp>>

\* what the for loop of sync_candidates receives when the generator returns its
\* sync token: a generator's return value ends the iteration and is not an
\* item, so final_sync_token keeps its initial None
FinalSyncToken(returned) == ""

\* UPDATE ashby_integrations SET sync_token = %s WHERE id = %s
StoreSyncToken(d, integration_id, token) ==
    IF token = "" THEN d
    ELSE [d EXCEPT !.ashby_integrations[integration_id].sync_token = token]

-----------------------------------------------------------------------------
(* sync_candidates, one step per access to the store or the provider *)

\* the callers of sync_candidates (the sync route, the scheduled sync)
Syncers == {"s1", "s2"}

NoOutcome ==
    [kind |-> "none", error |-> "", job_id |-> 0, stats |-> NoStats, wrote |-> {}]

\* the tables in which the store e differs from the store d, the row job_id
\* of ashby_sync_jobs left aside
Written(d, e, job_id) ==
    { t \in DOMAIN d \ {"ashby_sync_jobs"} : d[t] # e[t] }
        \cup (IF \E i \in 1..Len(e.ashby_sync_jobs) :
                    /\ i # job_id
                    /\ (i > Len(d.ashby_sync_jobs)
                            \/ d.ashby_sync_jobs[i] # e.ashby_sync_jobs[i])
              THEN {"ashby_sync_jobs"} ELSE {})

SynIdle(left, outcome) ==
    [pc |-> "idle", left |-> left, incremental |-> FALSE, integration |-> 0,
     token |-> "", protocol |-> "", job_id |-> 0, source_id |-> 0, stats |-> NoStats,
     requests |-> 0, received |-> 0, cursor |-> 0, sent |-> 0, page |-> << >>,
     resp |-> [more |-> FALSE, cursor |-> FALSE, token |-> ""],
     existing |-> 0, member |-> FALSE, action |-> "", user_id |-> 0,
     wrote |-> {}, outcome |-> outcome]

\* sync_candidates returns its counters
SynReturn(s) ==
    syn' = [syn EXCEPT ![s] = SynIdle(@.left,
                [kind |-> "returned", error |-> "", job_id |-> @.job_id,
                 stats |-> @.stats,
                 wrote |-> @.wrote \cup Written(db, db', @.job_id)])]

\* sync_candidates raises
SynRaise(s, error) ==
    syn' = [syn EXCEPT ![s] = SynIdle(@.left,
                [kind |-> "raised", error |-> error, job_id |-> @.job_id,
                 stats |-> @.stats,
                 wrote |-> @.wrote \cup Written(db, db', @.job_id)])]

\* an except branch that re-raises without a word to the job
SynRaiseOnly(s, error) ==
    /\ db' = db
    /\ SynRaise(s, error)

\* the except branch of sync_candidates: the job is marked failed, then re-raise
SynFail(s, error) ==
    /\ db' = update_sync_job(db, syn[s].job_id, "failed", error, syn[s].stats)
    /\ SynRaise(s, error)

\* get_active_integration; without an active integration the call raises
SyncStart(s) ==
    /\ syn[s].pc = "idle"
    /\ syn[s].left > 0 /\ cap.ops > 0
    /\ \E incremental \in cap.modes, ig \in get_active_integration(db) :
        IF ig = 0
        THEN syn' = [syn EXCEPT ![s] = SynIdle(@.left - 1,
                        [kind |-> "raised", error |-> "no_integration", job_id |-> 0,
                         stats |-> NoStats, wrote |-> {}])]
        ELSE syn' = [syn EXCEPT ![s] = [@ EXCEPT !.pc = "sweep", !.left = @ - 1,
                        !.incremental = incremental, !.integration = ig,
                        !.token = db.ashby_integrations[ig].sync_token,
                        !.outcome = NoOutcome]]
    /\ cap' = [cap EXCEPT !.ops = @ - 1]
    /\ UNCHANGED <<db, now, scr, add, nrm, con, scp>>

\* mark_stale_jobs_as_failed
SyncSweep(s) ==
    /\ syn[s].pc = "sweep"
    /\ db' = mark_stale_jobs_as_failed(db, now)
    /\ syn' = [syn EXCEPT ![s] = [@ EXCEPT !.pc = "job",
                    !.wrote = @ \cup Written(db, db', syn[s].job_id)]]
    /\ UNCHANGED <<now, scr, add, nrm, cap, con, scp>>

\* create_sync_job
SyncCreateJob(s) ==
    /\ syn[s].pc = "job"
    /\ Len(db.ashby_sync_jobs) < MaxJobs
    /\ db' = create_sync_job(db, syn[s].integration,
                IF syn[s].incremental THEN "incremental" ELSE "initial", now)
    /\ syn' = [syn EXCEPT ![s] = [@ EXCEPT !.pc = "source",
                    !.job_id = Len(db.ashby_sync_jobs) + 1,
                    !.wrote = @ \cup Written(db, db', Len(db.ashby_sync_jobs) + 1)]]
    /\ UNCHANGED <<now, scr, add, nrm, cap, con, scp>>

\* create_or_get_ashby_source, then the choice of the sync method
SyncGetSource(s) ==
    /\ syn[s].pc = "source"
    /\ \E r \in create_or_get_ashby_source(db) :
        /\ db' = r.db
        /\ syn' = [syn EXCEPT ![s] = [@ EXCEPT !.pc = "request", !.source_id = r.source_id,
                        !.wrote = @ \cup Written(db, db', syn[s].job_id),
                        !.protocol = IF syn[s].incremental /\ syn[s].token # ""
                                     THEN "incremental" ELSE "full"]]
    /\ UNCHANGED <<now, scr, add, nrm, cap, con, scp>>

\* errors _make_request raises, as the generator passes them on
RequestErrors(protocol) ==
    IF protocol = "incremental" THEN {"api_error", "token_expired"} ELSE {"api_error"}

\* candidate.list fails
SyncRequestFail(s) ==
    /\ syn[s].pc = "request"
    /\ \E e \in RequestErrors(syn[s].protocol) : SynFail(s, e)
    /\ UNCHANGED <<now, scr, add, nrm, cap, con, scp>>

\* candidate.list answers with one page
SyncRequestOk(s) ==
    /\ syn[s].pc = "request"
    /\ syn[s].requests < cap.pages
    /\ \E page \in Pages, resp \in Responses :
        /\ Len(page) <= cap.len /\ syn[s].received + Len(page) <= cap.total
        /\ \A i \in 1..Len(page) : page[i] \in cap.cands
        /\ resp.token \in cap.tokens
        /\ (syn[s].requests + 1 = cap.pages) => ~(resp.more /\ resp.cursor)
        /\ syn' = [syn EXCEPT ![s] = [@ EXCEPT
                        !.pc = IF page = << >> THEN "resume" ELSE "find",
                        !.requests = @ + 1, !.received = @ + Len(page),
                        !.sent = syn[s].cursor,
                        !.page = page, !.resp = resp]]
    /\ UNCHANGED <<db, now, scr, add, nrm, cap, con, scp>>

\* process_candidate: find_existing_candidate
ProcFind(s) ==
    /\ syn[s].pc = "find"
    /\ \E e \in find_existing_candidate(db, NextCandidate(syn[s].page)) :
        syn' = [syn EXCEPT ![s] = [@ EXCEPT !.existing = e,
                        !.pc = IF e # 0 THEN "member" ELSE "write"]]
    /\ UNCHANGED <<db, now, scr, add, nrm, cap, con, scp>>

\* process_candidate: is the person already in the Ashby source
ProcMember(s) ==
    /\ syn[s].pc = "member"
    /\ syn' = [syn EXCEPT ![s] = [@ EXCEPT !.pc = "write",
                    !.member = IsMember(db, syn[s].existing, syn[s].source_id)]]
    /\ UNCHANGED <<db, now, scr, add, nrm, cap, con, scp>>

\* process_candidate from its first write to its return
ProcessCandidateTx(d, c, source_id, existing, member, fail) ==
    IF existing # 0 THEN ProcessExistingTx(d, c, source_id, existing, member, fail)
    ELSE ProcessNewTx(d, c, source_id, fail)

\* process_candidate: the writes, and the counters of sync_candidates; an
\* exception that leaves process_candidate reaches the except branch of
\* sync_candidates
ProcWrite(s) ==
    /\ syn[s].pc = "write"
    /\ syn[s].existing # 0 \/ Len(db.People) < MaxPeople
    /\ \E fail \in BOOLEAN :
        LET r == ProcessCandidateTx(db, NextCandidate(syn[s].page), syn[s].source_id,
                                   syn[s].existing, syn[s].member, fail)
        IN  IF r.action = "raise"
            THEN SynFail(s, r.error)
            ELSE /\ db' = r.db
                 /\ syn' = [syn EXCEPT ![s] = [@ EXCEPT
                        !.pc = IF RestOf(syn[s].page) = << >> THEN "checkpoint" ELSE "find",
                        !.page = RestOf(@), !.existing = 0, !.member = FALSE,
                        !.action = r.action, !.user_id = r.user_id,
                        !.wrote = @ \cup Written(db, db', syn[s].job_id),
                        !.stats = CountAction(@, r.action)]]
    /\ UNCHANGED <<now, scr, add, nrm, cap, con, scp>>

\* update_sync_job after the page
SyncCheckpoint(s) ==
    /\ syn[s].pc = "checkpoint"
    /\ db' = update_sync_job(db, syn[s].job_id, "", "", syn[s].stats)
    /\ syn' = [syn EXCEPT ![s] = [@ EXCEPT !.pc = "resume",
                    !.wrote = @ \cup Written(db, db', syn[s].job_id)]]
    /\ UNCHANGED <<now, scr, add, nrm, cap, con, scp>>

\* the generator goes on to the next request: cursor = response.get("nextCursor"),
\* the cursor of the response just received (named by the number of its request)
SyncNextPage(s) ==
    /\ syn[s].pc = "resume"
    /\ syn[s].resp.more /\ syn[s].resp.cursor
    /\ syn' = [syn EXCEPT ![s].pc = "request", ![s].cursor = syn[s].requests]
    /\ UNCHANGED <<db, now, scr, add, nrm, cap, con, scp>>

\* moreDataAvailable without nextCursor: the generator raises
SyncNoCursor(s) ==
    /\ syn[s].pc = "resume"
    /\ syn[s].resp.more /\ ~syn[s].resp.cursor
    /\ SynFail(s, "no_cursor")
    /\ UNCHANGED <<now, scr, add, nrm, cap, con, scp>>

\* the generator returns: the loop ends, the token it kept is stored
SyncStoreToken(s) ==
    /\ syn[s].pc = "resume"
    /\ ~syn[s].resp.more
    /\ db' = StoreSyncToken(db, syn[s].integration, FinalSyncToken(syn[s].resp.token))
    /\ syn' = [syn EXCEPT ![s] = [@ EXCEPT !.pc = "complete",
                    !.wrote = @ \cup Written(db, db', syn[s].job_id)]]
    /\ UNCHANGED <<now, scr, add, nrm, cap, con, scp>>

\* the job is marked completed and the counters are returned
SyncComplete(s) ==
    /\ syn[s].pc = "complete"
    /\ db' = update_sync_job(db, syn[s].job_id, "completed", "", syn[s].stats)
    /\ SynReturn(s)
    /\ UNCHANGED <<now, scr, add, nrm, cap, con, scp>>

\* create_or_get_ashby_source raises (the database fails at its SELECT or its
\* INSERT): the call is made before the try block of sync_candidates, so the
\* exception leaves sync_candidates without a word to the job
SyncSourceFail(s) ==
    /\ syn[s].pc = "source"
    /\ db' = db
    /\ SynRaise(s, "source_error")
    /\ UNCHANGED <<now, scr, add, nrm, cap, con, scp>>

SyncFaultStep == \E s \in Syncers : SyncSourceFail(s)

-----------------------------------------------------------------------------
(* Specifications *)

-----------------------------------------------------------------------------
(* scripts/add_person_to_source.py, one step per access to the store *)

\* the runs of the script
Scripts == {"p1"}

\* the source names given on the command line
SourceNames == {"Master", "Manual List", "Team"}

\* Json({'manually_added': True, 'added_by_script': True}): no ATS id in it
ScriptMetadata ==
    [ashby_candidate_id |-> "", ashby_data |-> [NoCandidate EXCEPT !.id = "script"]]

ScpIdle(left, result) ==
    [pc |-> "idle", left |-> left, user_id |-> 0, source_name |-> "", source_id |-> 0,
     result |-> result]

\* find_person_by_name: People JOIN LinkedinInfo, the rows the name matches
\* (the operator of the script picks among them)
PeopleWithInfo(d) == { r.user_id : r \in d.LinkedinInfo }

\* find_or_create_source, the SELECT: ids of the sources of that name
SourcesByName(d, source_name) ==
    { i \in 1..Len(d.Sources) : d.Sources[i].name = source_name }

\* find_or_create_source, the INSERT of a source not found
CreateSource(d, source_name) ==
    [d EXCEPT !.Sources = Append(@, [name |-> source_name, source_type |-> "manual"])]

\* main up to the SELECT of the membership: the person, the source, the check
ScriptStart(p) ==
    /\ scp[p].pc = "idle"
    /\ scp[p].left > 0 /\ cap.ops > 0
    /\ \E source_name \in SourceNames :
        IF PeopleWithInfo(db) = {}
        THEN scp' = [scp EXCEPT ![p] = ScpIdle(@.left - 1, "no_person")]
        ELSE \E user_id \in PeopleWithInfo(db) :
             \E source_id \in (IF SourcesByName(db, source_name) = {} THEN {0}
                                ELSE SourcesByName(db, source_name)) :
                IF source_id # 0 /\ IsMember(db, user_id, source_id)
                THEN scp' = [scp EXCEPT ![p] = ScpIdle(@.left - 1, "already_member")]
                ELSE scp' = [scp EXCEPT ![p] = [@ EXCEPT !.pc = "write", !.left = @ - 1,
                                !.user_id = user_id, !.source_name = source_name,
                                !.source_id = source_id, !.result = "none"]]
    /\ cap' = [cap EXCEPT !.ops = @ - 1]
    /\ UNCHANGED <<db, now, scr, add, syn, nrm, con>>

\* the INSERTs of the source not found and of the membership, then the commit;
\* a membership committed since the check makes the INSERT raise
ScriptTx(d, user_id, source_name, source_id) ==
    LET d1 == IF source_id = 0 THEN CreateSource(d, source_name) ELSE d
        sid == IF source_id = 0 THEN Len(d1.Sources) ELSE source_id
        d2 == AddMembership(d1, user_id, sid,
                            OrEmpty(d.People[user_id].canonical_linkedin_url),
                            ScriptMetadata)
    IN  IF ~UniqueMemberOK(d2.PeopleSources)
        THEN [db |-> rollback(d, d1), result |-> "error"]
        ELSE [db |-> d2, result |-> "added"]

ScriptWrite(p) ==
    /\ scp[p].pc = "write"
    /\ LET r == ScriptTx(db, scp[p].user_id, scp[p].source_name, scp[p].source_id)
       IN  /\ db' = r.db
           /\ scp' = [scp EXCEPT ![p] = ScpIdle(@.left, r.result)]
    /\ UNCHANGED <<now, scr, add, syn, nrm, cap, con>>

ScriptStep == \E p \in Scripts : ScriptStart(p) \/ ScriptWrite(p)

NoNrm == [a |-> EmptyStr, b |-> EmptyStr, ka |-> EmptyStr, kb |-> EmptyStr, pc |-> "off"]

ScrapeStep == \E w \in Scrapers :
    \/ ScrapeStart(w) \/ FetchFail(w) \/ FetchOk(w)
    \/ InsertNoId(w) \/ InsertSelect(w) \/ InsertWrite(w)

AddStep == \E a \in Adders : AddStart(a) \/ AddWrite(a)

SyncStep == \E s \in Syncers :
    \/ SyncStart(s) \/ SyncSweep(s) \/ SyncCreateJob(s) \/ SyncGetSource(s)
    \/ SyncRequestFail(s) \/ SyncRequestOk(s)
    \/ ProcFind(s) \/ ProcMember(s) \/ ProcWrite(s)
    \/ SyncCheckpoint(s) \/ SyncNextPage(s) \/ SyncNoCursor(s)
    \/ SyncStoreToken(s) \/ SyncComplete(s)

\* ingestion by two concurrent callers, with manual adds
InitIngest ==
    /\ db = InitDb
    /\ now = 0
    /\ nrm = NoNrm
    /\ con = [c \in Connectors |-> ConIdle(0, 0)]
    /\ scp = [p \in Scripts |-> ScpIdle(0, "none")]
    /\ syn = [s \in Syncers |-> SynIdle(0, NoOutcome)]
    /\ scr = [w \in Scrapers |-> ScrIdle(MaxScrapes, NoResult)]
    /\ add = [a \in Adders |-> AddIdle(MaxAdds, 0)]
    /\ cap = [ops |-> 2 * MaxScrapes + MaxAdds, pages |-> 0, len |-> 0,
              total |-> 0, cands |-> {}, modes |-> {}, tokens |-> {}, urls |-> InputUrls, docs |-> OneProfileDocs]

NextIngest == ScrapeStep \/ AddStep

SpecIngest == InitIngest /\ [][NextIngest]_vars

\* one sync run of the integration connect_ashby saved, with manual adds
MaxSyncs == 1
\* manual adds beside the run
SyncAdds == 2

\* what earlier runs left in the store: nothing; or the Ashby source, a sync
\* token in the integration's sync_token column, and the job of the last run,
\* completed or still running because the run's process died
EarlierRuns == {"none", "completed", "died"}

EarlierDb(h) ==
    IF h = "none"
    THEN [InitDb EXCEPT !.ashby_integrations =
            << [is_active |-> TRUE, sync_token |-> ""] >>]
    ELSE [InitDb EXCEPT
            !.ashby_integrations = << [is_active |-> TRUE, sync_token |-> "t0"] >>,
            !.Sources = Append(@, [name |-> "Ashby Candidates", source_type |-> "ashby"]),
            !.ashby_sync_jobs =
                << [integration_id |-> 1, job_type |-> "initial",
                    status |-> IF h = "died" THEN "running" ELSE "completed",
                    candidates_processed |-> 0, candidates_created |-> 0,
                    candidates_updated |-> 0, candidates_skipped |-> 0,
                    error_message |-> "", started_at |-> 0] >>]

InitSync ==
    /\ \E h \in EarlierRuns : db = EarlierDb(h)
    /\ now = StaleMinutes + 1
    /\ nrm = NoNrm
    /\ con = [c \in Connectors |-> ConIdle(0, 0)]
    /\ scp = [p \in Scripts |-> ScpIdle(0, "none")]
    /\ syn = [s \in Syncers |-> SynIdle(IF s = "s1" THEN MaxSyncs ELSE 0, NoOutcome)]
    /\ scr = [w \in Scrapers |-> ScrIdle(0, NoResult)]
    /\ add = [a \in Adders |-> AddIdle(SyncAdds, 0)]
    /\ cap = [ops |-> MaxSyncs + SyncAdds, pages |-> MaxPages, len |-> MaxPageLen,
              total |-> MaxCandidates, cands |-> Candidates, modes |-> BOOLEAN, tokens |-> Tokens,
              urls |-> VariantsOf("x") \cap InputUrls, docs |-> OneProfileDocs]

NextSync == SyncStep \/ AddStep

SpecSync == InitSync /\ [][NextSync]_vars

\* ingestion by two concurrent callers, manual adds and one sync run of one
\* candidate, all interleaved: MaxOps calls in all, on one profile URL
MaxOps == 3
AllPages == 2
AllPageLen == 1

Init ==
    /\ db = [InitDb EXCEPT !.ashby_integrations =
                << [is_active |-> TRUE, sync_token |-> ""] >>]
    /\ now = 0
    /\ nrm = NoNrm
    /\ con = [c \in Connectors |-> ConIdle(0, 0)]
    /\ scp = [p \in Scripts |-> ScpIdle(0, "none")]
    /\ syn = [s \in Syncers |-> SynIdle(IF s = "s1" THEN MaxSyncs ELSE 0, NoOutcome)]
    /\ scr = [w \in Scrapers |-> ScrIdle(MaxScrapes, NoResult)]
    /\ add = [a \in Adders |-> AddIdle(MaxAdds, 0)]
    /\ cap = [ops |-> MaxOps, pages |-> AllPages, len |-> AllPageLen,
              total |-> AllPageLen, cands |-> Candidates, modes |-> {FALSE},
              tokens |-> {""},
              urls |-> {Variant("x", FALSE, FALSE, FALSE, FALSE)}, docs |-> {1, 3}]

Next == ScrapeStep \/ AddStep \/ SyncStep

Spec == Init /\ [][Next]_vars

\* two concurrent sync runs of one candidate each and a manual add
MaxRuns == 1
RunOps == 3
\* the candidate the provider holds: its URL is the one the manual add gives
RunCandidate ==
    [id |-> "c1", linkedin |-> Variant("x", FALSE, FALSE, FALSE, FALSE), rev |-> 2]

InitRuns ==
    /\ db = [InitDb EXCEPT !.ashby_integrations =
                << [is_active |-> TRUE, sync_token |-> ""] >>]
    /\ now = 0
    /\ nrm = NoNrm
    /\ con = [c \in Connectors |-> ConIdle(0, 0)]
    /\ scp = [p \in Scripts |-> ScpIdle(0, "none")]
    /\ syn = [s \in Syncers |-> SynIdle(MaxRuns, NoOutcome)]
    /\ scr = [w \in Scrapers |-> ScrIdle(0, NoResult)]
    /\ add = [a \in Adders |-> AddIdle(MaxAdds, 0)]
    /\ cap = [ops |-> RunOps, pages |-> AllPages, len |-> AllPageLen,
              total |-> AllPageLen, cands |-> {RunCandidate}, modes |-> {FALSE}, tokens |-> {""},
              urls |-> {Variant("x", FALSE, FALSE, FALSE, FALSE)}, docs |-> {}]

NextRuns == SyncStep \/ AddStep

SpecRuns == InitRuns /\ [][NextRuns]_vars

\* two concurrent sync runs and the time that passes between their steps
MaxNow == StaleMinutes + 1

InitClock ==
    /\ db = [InitDb EXCEPT !.ashby_integrations =
                << [is_active |-> TRUE, sync_token |-> ""] >>]
    /\ now = 0
    /\ nrm = NoNrm
    /\ con = [c \in Connectors |-> ConIdle(0, 0)]
    /\ scp = [p \in Scripts |-> ScpIdle(0, "none")]
    /\ syn = [s \in Syncers |-> SynIdle(MaxRuns, NoOutcome)]
    /\ scr = [w \in Scrapers |-> ScrIdle(0, NoResult)]
    /\ add = [a \in Adders |-> AddIdle(0, 0)]
    /\ cap = [ops |-> 2 * MaxRuns, pages |-> AllPages, len |-> AllPageLen,
              total |-> AllPageLen,
              cands |-> {RunCandidate}, modes |-> {FALSE}, tokens |-> {""},
              urls |-> {}, docs |-> {}]

\* CURRENT_TIMESTAMP moves on: to the stale age, then a minute past it
Tick ==
    /\ now < MaxNow
    /\ now' = IF now < StaleMinutes THEN StaleMinutes ELSE now + 1
    /\ UNCHANGED <<db, scr, add, syn, nrm, cap, con, scp>>

NextClock == SyncStep \/ Tick

SpecClock == InitClock /\ [][NextClock]_vars

\* a sync run, a connect_ashby request and a manual add on a store without an
\* active integration: a fresh store, or a store whose one integration has been
\* switched off in the table, with the job an earlier run left running when
\* its process died before it created the ATS source
SwitchedOffDb ==
    [InitDb EXCEPT
        !.ashby_integrations = << [is_active |-> FALSE, sync_token |-> ""] >>,
        !.ashby_sync_jobs =
            << [integration_id |-> 1, job_type |-> "initial", status |-> "running",
                candidates_processed |-> 0, candidates_created |-> 0,
                candidates_updated |-> 0, candidates_skipped |-> 0,
                error_message |-> "", started_at |-> 0] >>]

InitUnconnected ==
    /\ db \in {InitDb, SwitchedOffDb}
    /\ now = StaleMinutes + 1
    /\ nrm = NoNrm
    /\ con = [c \in Connectors |-> ConIdle(IF c = "k1" THEN 1 ELSE 0, 0)]
    /\ scp = [p \in Scripts |-> ScpIdle(0, "none")]
    /\ syn = [s \in Syncers |-> SynIdle(IF s = "s1" THEN MaxSyncs ELSE 0, NoOutcome)]
    /\ scr = [w \in Scrapers |-> ScrIdle(0, NoResult)]
    /\ add = [a \in Adders |-> AddIdle(MaxAdds, 0)]
    /\ cap = [ops |-> MaxSyncs + 1, pages |-> AllPages, len |-> AllPageLen,
              total |-> AllPageLen, cands |-> {RunCandidate}, modes |-> BOOLEAN,
              tokens |-> {""},
              urls |-> {Variant("x", FALSE, FALSE, FALSE, FALSE)}, docs |-> {}]

NextUnconnected ==
    \/ \E c \in Connectors : SaveDeactivate(c) \/ SaveInsert(c) \/ SaveFail(c)
    \/ SyncStep
    \/ AddStep

SpecUnconnected == InitUnconnected /\ [][NextUnconnected]_vars

\* ingestion, a manual add and one sync run on a URL that is one blank
InitBlank ==
    /\ db = [InitDb EXCEPT !.ashby_integrations =
                << [is_active |-> TRUE, sync_token |-> ""] >>]
    /\ now = 0
    /\ nrm = NoNrm
    /\ con = [c \in Connectors |-> ConIdle(0, 0)]
    /\ scp = [p \in Scripts |-> ScpIdle(0, "none")]
    /\ syn = [s \in Syncers |-> SynIdle(IF s = "s1" THEN MaxSyncs ELSE 0, NoOutcome)]
    /\ scr = [w \in Scrapers |-> ScrIdle(MaxScrapes, NoResult)]
    /\ add = [a \in Adders |-> AddIdle(MaxAdds, 0)]
    /\ cap = [ops |-> MaxOps, pages |-> AllPages, len |-> AllPageLen,
              total |-> AllPageLen, cands |-> {BlankCandidate}, modes |-> {FALSE},
              tokens |-> {""}, urls |-> {Blank}, docs |-> {1, 3}]

SpecBlank == InitBlank /\ [][Next]_vars

\* two full sync runs one after the other, by one caller, over a list of one
\* candidate: with and without ATS id, with and without LinkedIn link
TwiceRuns == 2

CandidateShapes ==
    { [id |-> "c1", linkedin |-> NullUrl, rev |-> 1], RunCandidate,
      NoIdCandidate, NoIdLinked }

InitTwice ==
    /\ db = [InitDb EXCEPT !.ashby_integrations =
                << [is_active |-> TRUE, sync_token |-> ""] >>]
    /\ now = 0
    /\ nrm = NoNrm
    /\ con = [c \in Connectors |-> ConIdle(0, 0)]
    /\ scp = [p \in Scripts |-> ScpIdle(0, "none")]
    /\ syn = [s \in Syncers |-> SynIdle(IF s = "s1" THEN TwiceRuns ELSE 0, NoOutcome)]
    /\ scr = [w \in Scrapers |-> ScrIdle(0, NoResult)]
    /\ add = [a \in Adders |-> AddIdle(0, 0)]
    /\ \E c \in CandidateShapes :
        cap = [ops |-> TwiceRuns, pages |-> AllPages, len |-> AllPageLen,
               total |-> AllPageLen, cands |-> {c}, modes |-> {FALSE},
               tokens |-> {""}, urls |-> {}, docs |-> {}]

NextTwice == SyncStep

SpecTwice == InitTwice /\ [][NextTwice]_vars

\* two concurrent sync runs over a list of one candidate with an ATS id,
\* without or with a LinkedIn link
UnlinkedCandidate == [id |-> "c1", linkedin |-> NullUrl, rev |-> 1]

InitRace ==
    /\ db = [InitDb EXCEPT !.ashby_integrations =
                << [is_active |-> TRUE, sync_token |-> ""] >>]
    /\ now = 0
    /\ nrm = NoNrm
    /\ con = [c \in Connectors |-> ConIdle(0, 0)]
    /\ scp = [p \in Scripts |-> ScpIdle(0, "none")]
    /\ syn = [s \in Syncers |-> SynIdle(MaxRuns, NoOutcome)]
    /\ scr = [w \in Scrapers |-> ScrIdle(0, NoResult)]
    /\ add = [a \in Adders |-> AddIdle(0, 0)]
    /\ \E c \in {UnlinkedCandidate, RunCandidate} :
        cap = [ops |-> 2 * MaxRuns, pages |-> AllPages, len |-> AllPageLen,
               total |-> AllPageLen, cands |-> {c}, modes |-> {FALSE},
               tokens |-> {""}, urls |-> {}, docs |-> {}]

NextRace == SyncStep

SpecRace == InitRace /\ [][NextRace]_vars

\* one sync run in which the database may also fail under
\* create_or_get_ashby_source
InitFault ==
    /\ db = [InitDb EXCEPT !.ashby_integrations =
                << [is_active |-> TRUE, sync_token |-> "t0"] >>]
    /\ now = 0
    /\ nrm = NoNrm
    /\ con = [c \in Connectors |-> ConIdle(0, 0)]
    /\ scp = [p \in Scripts |-> ScpIdle(0, "none")]
    /\ syn = [s \in Syncers |-> SynIdle(IF s = "s1" THEN MaxSyncs ELSE 0, NoOutcome)]
    /\ scr = [w \in Scrapers |-> ScrIdle(0, NoResult)]
    /\ add = [a \in Adders |-> AddIdle(MaxAdds, 0)]
    /\ cap = [ops |-> MaxSyncs + MaxAdds, pages |-> AllPages, len |-> AllPageLen,
              total |-> AllPageLen, cands |-> {RunCandidate}, modes |-> BOOLEAN,
              tokens |-> Tokens,
              urls |-> {Variant("x", FALSE, FALSE, FALSE, FALSE)}, docs |-> {}]

NextFault == SyncStep \/ SyncFaultStep \/ AddStep

SpecFault == InitFault /\ [][NextFault]_vars

\* calls of save_integration by two concurrent requests of connect_ashby
MaxSaves == 2

InitConnect ==
    /\ db = InitDb
    /\ now = 0
    /\ nrm = NoNrm
    /\ con = [c \in Connectors |-> ConIdle(MaxSaves, 0)]
    /\ scp = [p \in Scripts |-> ScpIdle(0, "none")]
    /\ syn = [s \in Syncers |-> SynIdle(0, NoOutcome)]
    /\ scr = [w \in Scrapers |-> ScrIdle(0, NoResult)]
    /\ add = [a \in Adders |-> AddIdle(0, 0)]
    /\ cap = [ops |-> 0, pages |-> 0, len |-> 0, total |-> 0, cands |-> {},
              modes |-> {}, tokens |-> {}, urls |-> {}, docs |-> {}]

NextConnect == \E c \in Connectors : SaveDeactivate(c) \/ SaveInsert(c) \/ SaveFail(c)

SpecConnect == InitConnect /\ [][NextConnect]_vars

\* runs of the script add_person_to_source beside scrapes and manual adds, on
\* one profile
MaxScripts == 2
ScriptOps == 4

InitScript ==
    /\ db = InitDb
    /\ now = 0
    /\ nrm = NoNrm
    /\ con = [c \in Connectors |-> ConIdle(0, 0)]
    /\ scp = [p \in Scripts |-> ScpIdle(MaxScripts, "none")]
    /\ syn = [s \in Syncers |-> SynIdle(0, NoOutcome)]
    /\ scr = [w \in Scrapers |-> ScrIdle(MaxScrapes, NoResult)]
    /\ add = [a \in Adders |-> AddIdle(MaxAdds, 0)]
    /\ cap = [ops |-> ScriptOps, pages |-> 0, len |-> 0, total |-> 0, cands |-> {},
              modes |-> {}, tokens |-> {},
              urls |-> {Variant("x", FALSE, FALSE, FALSE, FALSE)}, docs |-> {1, 3, 4}]

NextScript == ScrapeStep \/ AddStep \/ ScriptStep

SpecScript == InitScript /\ [][NextScript]_vars

\* normalize_linkedin_url applied to two variant forms of one profile URL
InitNorm ==
    /\ db = InitDb
    /\ con = [c \in Connectors |-> ConIdle(0, 0)]
    /\ scp = [p \in Scripts |-> ScpIdle(0, "none")]
    /\ now = 0
    /\ syn = [s \in Syncers |-> SynIdle(0, NoOutcome)]
    /\ scr = [w \in Scrapers |-> ScrIdle(0, NoResult)]
    /\ add = [a \in Adders |-> AddIdle(0, 0)]
    /\ cap = [ops |-> 0, pages |-> 0, len |-> 0, total |-> 0, cands |-> {}, modes |-> {},
              tokens |-> {}, urls |-> {}, docs |-> {}]
    /\ \E name \in ProfileNames : \E a, b \in VariantsOf(name) :
        nrm = [a |-> a, b |-> b, ka |-> EmptyStr, kb |-> EmptyStr, pc |-> "in"]

Normalize ==
    /\ nrm.pc = "in"
    /\ nrm' = [nrm EXCEPT !.ka = normalize_linkedin_url(nrm.a),
                          !.kb = normalize_linkedin_url(nrm.b), !.pc = "out"]
    /\ UNCHANGED <<db, now, scr, add, syn, cap, con, scp>>

NextNorm == Normalize

SpecNorm == InitNorm /\ [][NextNorm]_vars

-----------------------------------------------------------------------------
(* Claims *)

\* C1: in every reachable state, under any interleaving of insert_profile_data,
\* process_candidate and add_candidate_to_source, two concurrent ingestions of
\* one URL included, no two rows of People share a non-NULL key.
C1_KeyUnique ==
    \A i, j \in 1..Len(db.People) :
        (i < j /\ db.People[i].canonical_linkedin_url # NullUrl)
            => db.People[i].canonical_linkedin_url # db.People[j].canonical_linkedin_url

\* two concurrent ingestions of one URL have ended: one created the person, the
\* other's insert was rejected by the unique index
C1_Witness ==
    \E w, v \in Scrapers :
        /\ scr[w].pc = "idle" /\ scr[w].result.status = "success"
        /\ scr[v].pc = "idle" /\ scr[v].result.message = "integrity_error"
        /\ Len(db.People) >= 1

\* C2: normalize_linkedin_url maps every variant form of one logical profile
\* URL (scheme or none, www. or none, trailing slash, query string) to one
\* identical key.
C2_VariantsShareOneKey == nrm.pc = "out" => nrm.ka = nrm.kb

\* the person insert of the ingestion by w meets a row another ingestion
\* committed after w's SELECT found none
InsertConflicts(w) ==
    /\ scr[w].pc = "write"
    /\ scr[w].existing = 0
    /\ PeopleByUrl(db, {normalize_linkedin_url(scr[w].url)}) # {}

\* C3: when the person insert of a second concurrent ingestion hits the
\* uniqueness conflict on the key, the ingestion surfaces no error: it updates
\* the row that is there, and one person exists for the identity.
C3_ConflictReconciled ==
    [][\A w \in Scrapers :
        (InsertConflicts(w) /\ scr'[w].pc = "idle" /\ scr'[w].result.message # "db_error")
            => LET hit == PeopleByUrl(db', {normalize_linkedin_url(scr[w].url)})
               IN  /\ scr'[w].result.status = "success"
                   /\ Cardinality(hit) = 1
                   /\ \A u \in hit : /\ scr'[w].result.user_id = u
                                     /\ db'.People[u].linkedin_details = scr[w].doc
                                     /\ db'.People[u].scrape_status = "scraped"]_vars

\* the entries of the rows of user_id in an attribute table, in order
EntriesOf(rows, user_id) ==
    LET sel == SelectSeq(rows, LAMBDA r : r.user_id = user_id)
    IN  [i \in 1..Len(sel) |-> sel[i].v]

\* insert_profile_data returns to w with a user_id
InsertSucceeds(w) == scr[w].pc = "write" /\ scr'[w].result.status = "success"

\* C4 as stated: after every successful insert_profile_data the person's
\* positions, educations, skills and honors are exactly the entries of the
\* input document.
C4_ExactlyTheDocument ==
    [][\A w \in Scrapers : InsertSucceeds(w) =>
        LET u == scr'[w].result.user_id
            doc == Docs[scr[w].doc]
        IN  /\ EntriesOf(db'.Educations, u) = doc.educations
            /\ EntriesOf(db'.Positions, u) = doc.position
            /\ EntriesOf(db'.Skills, u) = doc.skills
            /\ EntriesOf(db'.Honors, u) = doc.honors]_vars

\* C4: after every successful insert_profile_data the person's positions and
\* educations are exactly the entries of the input document, the skills its
\* entries that have a name and the honors its entries that have a title;
\* nothing of an earlier refresh remains, so a second run with the same
\* document leaves what the first left.
C4_AttributeSetsReplaced ==
    [][\A w \in Scrapers : InsertSucceeds(w) =>
        LET u == scr'[w].result.user_id
            doc == Docs[scr[w].doc]
        IN  /\ EntriesOf(db'.Educations, u) = doc.educations
            /\ EntriesOf(db'.Positions, u) = doc.position
            /\ EntriesOf(db'.Skills, u) = SelectSeq(doc.skills, LAMBDA e : e # "")
            /\ EntriesOf(db'.Honors, u) = SelectSeq(doc.honors, LAMBDA e : e # "")]_vars

\* one person has been refreshed twice, each time successfully
C4_Witness ==
    \E w, v \in Scrapers :
        /\ w # v
        /\ scr[w].result.status = "success" /\ scr[v].result.status = "success"
        /\ scr[w].result.user_id = scr[v].result.user_id
        /\ EntriesOf(db.Positions, scr[w].result.user_id) # << >>

\* C5: a failure of insert_profile_data after the profile id check, at the
\* person write, the LinkedinInfo write, an attribute delete or insert or the
\* membership update, leaves the store as it was before the call.
C5_FailureLeavesStore ==
    [][\A w \in Scrapers :
        (scr[w].pc = "write" /\ scr'[w].pc = "idle" /\ scr'[w].result.status = "failed")
            => db' = db]_vars

\* an ingestion failed after its person write, over a store that holds a person
C5_Witness ==
    \E w \in Scrapers :
        /\ scr[w].pc = "idle" /\ scr[w].result.message = "db_error"
        /\ Len(db.People) >= 1

\* C6: after a run whose final page (more_available = false) carries a sync
\* token, the integration's stored sync token is that token.
C6_TokenStored ==
    [][\A s \in Syncers :
        (syn[s].pc = "resume" /\ syn'[s].pc = "complete" /\ syn[s].resp.token # "")
            => db'.ashby_integrations[syn[s].integration].sync_token
                    = syn[s].resp.token]_vars

\* C7: when a run over any number of pages ends without error, its job is
\* completed, candidates_processed is the number of candidates of all pages,
\* and created + updated + skipped = processed.
C7_CompletedCountsAddUp ==
    [][\A s \in Syncers :
        (syn[s].pc = "complete" /\ syn'[s].pc = "idle")
            => LET job == db'.ashby_sync_jobs[syn[s].job_id]
               IN  /\ syn'[s].outcome.kind = "returned"
                   /\ job.status = "completed"
                   /\ job.candidates_processed = syn[s].received
                   /\ job.candidates_created + job.candidates_updated
                        + job.candidates_skipped = job.candidates_processed]_vars

\* a run of two pages and three candidates has returned
C7_Witness ==
    \E s \in Syncers :
        /\ syn[s].pc = "idle" /\ syn[s].outcome.kind = "returned"
        /\ syn[s].outcome.stats.candidates_processed = MaxCandidates
        /\ db.ashby_sync_jobs[syn[s].outcome.job_id].status = "completed"

MembershipsOf(d, user_id, source_id) ==
    { i \in 1..Len(d.PeopleSources) :
        d.PeopleSources[i].user_id = user_id /\ d.PeopleSources[i].source_id = source_id }

\* process_candidate ends as 'updated' with the one membership of the matched
\* person in the ATS source carrying the candidate's metadata
UpdatedInPlaceOrInserted(s) ==
    LET c == Head(syn[s].page)
        rows == MembershipsOf(db', syn[s].existing, syn[s].source_id)
    IN  /\ syn'[s].stats.candidates_updated = syn[s].stats.candidates_updated + 1
        /\ Cardinality(rows) = 1
        /\ \A i \in rows :
            db'.PeopleSources[i].source_metadata = format_candidate_for_storage(c)
        /\ Len(db'.PeopleSources)
            = Len(db.PeopleSources) + (IF syn[s].member THEN 0 ELSE 1)

\* C10 as stated: for a candidate matched to an existing person,
\* process_candidate returns 'updated' and exactly one membership (person, ATS
\* source) then carries the candidate's metadata.
C10_MatchedIsUpdated ==
    [][\A s \in Syncers :
        (syn[s].pc = "write" /\ syn[s].existing # 0
            /\ syn'[s].pc \in {"find", "checkpoint"})
            => UpdatedInPlaceOrInserted(s)]_vars

\* C10: for a candidate matched to an existing person, process_candidate
\* returns 'updated' and exactly one membership (person, ATS source) then
\* carries the candidate's metadata, overwritten in place when the person was a
\* member and inserted when not; when a concurrent writer has inserted the
\* membership since the check, it returns 'skipped' and writes nothing.
C10_MatchedIsUpdatedUnlessRaced ==
    [][\A s \in Syncers :
        (syn[s].pc = "write" /\ syn[s].existing # 0
            /\ syn'[s].pc \in {"find", "checkpoint"})
            => IF ~syn[s].member /\ IsMember(db, syn[s].existing, syn[s].source_id)
               THEN /\ db' = db
                    /\ syn'[s].stats.candidates_skipped
                            = syn[s].stats.candidates_skipped + 1
               ELSE UpdatedInPlaceOrInserted(s)]_vars

\* a run has inserted the membership of a person a manual add created and then
\* overwritten it in place
C10_Witness ==
    \E s \in Syncers :
        /\ syn[s].stats.candidates_updated = 2
        /\ syn[s].stats.candidates_created = 0
        /\ syn[s].stats.candidates_skipped = 0

-----------------------------------------------------------------------------
(* the membership race, the uniqueness of memberships, the duplicate add *)

\* the membership check of process_candidate found no membership of the matched
\* person, and a concurrent writer has committed one since
MembershipRaced(s) ==
    /\ syn[s].pc = "write" /\ syn[s].existing # 0 /\ ~syn[s].member
    /\ IsMember(db, syn[s].existing, syn[s].source_id)

\* C11: when the membership insert for a matched person conflicts with a row a
\* concurrent writer committed between the membership check and the insert,
\* the candidate is counted as skipped, the run goes on to the next candidate
\* (or to the checkpoint at the end of the page), and the job stays running:
\* nothing in the store changes.  The step that fails for another database
\* error is not this case.
C11_RaceIsSkipped ==
    [][\A s \in Syncers :
        (MembershipRaced(s) /\ syn'[s] # syn[s]
            /\ ~(syn'[s].pc = "idle" /\ syn'[s].outcome.error = "db_error"))
            => /\ syn'[s].pc = (IF Len(syn[s].page) = 1 THEN "checkpoint" ELSE "find")
               /\ syn'[s].action = "skipped"
               /\ syn'[s].stats = [syn[s].stats EXCEPT
                        !.candidates_processed = @ + 1, !.candidates_skipped = @ + 1]
               /\ db' = db
               /\ db'.ashby_sync_jobs[syn[s].job_id].status = "running"]_vars

\* a run lost the race for a membership, counted the candidate as skipped and
\* has a further candidate of the same page before it
C11_Witness ==
    \E s \in Syncers :
        /\ syn[s].pc = "find" /\ syn[s].action = "skipped" /\ syn[s].user_id # 0
        /\ syn[s].stats.candidates_skipped = 1
        /\ db.ashby_sync_jobs[syn[s].job_id].status = "running"

\* C12: there is at most one membership row per (person, source) pair, in
\* every state of two concurrent sync runs and a manual add.
C12_OneMembershipPerPair ==
    \A user_id \in 1..Len(db.People), source_id \in 1..Len(db.Sources) :
        Cardinality(MembershipsOf(db, user_id, source_id)) <= 1

\* two runs matched the same person, neither found it a member of the ATS
\* source, one inserted the membership and the other was refused
C12_Witness ==
    \E s, t \in Syncers :
        /\ syn[s].action = "updated" /\ syn[t].action = "skipped"
        /\ syn[s].user_id # 0 /\ syn[t].user_id = syn[s].user_id
        /\ syn[s].stats.candidates_updated = 1 /\ syn[t].stats.candidates_skipped = 1
        /\ Cardinality(MembershipsOf(db, syn[s].user_id, syn[s].source_id)) = 1

\* the person of the add is already a member of the source of the add
DuplicateAdd(a) ==
    /\ add[a].pc = "write" /\ add[a].existing # 0
    /\ IsMember(db, add[a].existing, add[a].source_id)

\* C13: an add for a (person, source) pair that already has a membership is
\* answered 409, and the store is as it was before the call: the one membership
\* of the pair, no new person.
C13_DuplicateAddRefused ==
    [][\A a \in Adders :
        (DuplicateAdd(a) /\ add'[a] # add[a])
            => /\ add'[a].result = 409
               /\ db' = db
               /\ Cardinality(MembershipsOf(db', add[a].existing, add[a].source_id)) = 1
               /\ Len(db'.People) = Len(db.People)]_vars

\* an add was answered 409
C13_Witness == \E a \in Adders : add[a].pc = "idle" /\ add[a].result = 409

-----------------------------------------------------------------------------
(* the order of processing, the checkpoints, the failure of a run *)

\* C17: a run sends a request only when no candidate of the page before is
\* left, having processed every candidate it has received; within a page it
\* looks up and writes the candidates from the first to the last, the
\* membership it writes carrying the metadata of the candidate it is at.
C17_PageByPageInListOrder ==
    [][\A s \in Syncers :
        /\ (syn[s].pc = "request" /\ syn'[s].pc # "request")
            => /\ syn[s].page = << >>
               /\ syn[s].stats.candidates_processed = syn[s].received
               /\ syn'[s].pc # "idle" => syn'[s].requests = syn[s].requests + 1
        /\ (syn[s].pc = "find" /\ syn'[s].pc \in {"member", "write"})
            => /\ syn'[s].existing \in find_existing_candidate(db, Head(syn[s].page))
               /\ syn'[s].page = syn[s].page
        /\ (syn[s].pc = "write" /\ syn'[s].pc \in {"find", "checkpoint"})
            => /\ syn'[s].page = Tail(syn[s].page)
               /\ syn'[s].requests = syn[s].requests
               /\ (syn'[s].pc = "checkpoint") = (Len(syn[s].page) = 1)
               /\ syn'[s].action \in {"created", "updated"}
                    => \E i \in MembershipsOf(db', syn'[s].user_id, syn[s].source_id) :
                         db'.PeopleSources[i].source_metadata
                            = format_candidate_for_storage(Head(syn[s].page))]_vars

\* a run is at the first candidate of its second page, the two candidates of
\* its first page processed
C17_Witness ==
    \E s \in Syncers :
        /\ syn[s].pc = "find" /\ syn[s].requests = 2
        /\ syn[s].stats.candidates_processed = MaxPageLen
        /\ syn[s].received = MaxPageLen + Len(syn[s].page)

\* the counters of a job record
CountersOf(job) ==
    [candidates_processed |-> job.candidates_processed,
     candidates_created |-> job.candidates_created,
     candidates_updated |-> job.candidates_updated,
     candidates_skipped |-> job.candidates_skipped]

\* C18: whenever a run is about to send a request, or is between a checkpoint
\* and the next request, its job record holds the run's counters; while a page
\* is in progress the record is behind by the candidates of that page already
\* processed, and by nothing else.
C18_CheckpointBeforeNextRequest ==
    \A s \in Syncers :
        syn[s].job_id # 0 =>
            LET job == db.ashby_sync_jobs[syn[s].job_id]
                lag == syn[s].stats.candidates_processed - job.candidates_processed
            IN  IF syn[s].pc \in {"find", "member", "write", "checkpoint"}
                THEN /\ lag >= 0 /\ lag <= MaxPageLen
                     /\ lag + Len(syn[s].page) = syn[s].received - job.candidates_processed
                     /\ job.candidates_created <= syn[s].stats.candidates_created
                     /\ job.candidates_updated <= syn[s].stats.candidates_updated
                     /\ job.candidates_skipped <= syn[s].stats.candidates_skipped
                ELSE CountersOf(job) = syn[s].stats

\* a run is about to request its second page, the two candidates of the first
\* counted in its job record
C18_Witness ==
    \E s \in Syncers :
        /\ syn[s].pc = "request" /\ syn[s].requests = 1
        /\ db.ashby_sync_jobs[syn[s].job_id].candidates_processed = MaxPageLen
        /\ db.ashby_sync_jobs[syn[s].job_id].status = "running"

\* C19: when a request or the processing of a candidate raises inside the loop
\* of a run, the run's job becomes failed with the error's message and the
\* counters the run had reached, the error is raised to the caller, and no
\* person and no membership is touched: what earlier candidates committed
\* stays.
C19_FailureKeepsProgress ==
    [][\A s \in Syncers :
        (syn[s].pc \in {"request", "resume", "write"} /\ syn'[s].pc = "idle"
            /\ syn'[s].outcome.kind = "raised")
            => LET job == db'.ashby_sync_jobs[syn[s].job_id]
               IN  /\ job.status = "failed"
                   /\ syn'[s].outcome.error # ""
                   /\ job.error_message = syn'[s].outcome.error
                   /\ CountersOf(job) = syn[s].stats
                   /\ syn'[s].outcome.stats = syn[s].stats
                   /\ db'.People = db.People
                   /\ db'.PeopleSources = db.PeopleSources
                   /\ \A t \in DOMAIN db \ {"ashby_sync_jobs"} : db'[t] = db[t]]_vars

\* a run failed on a candidate after it had created a person, which is still
\* in the store with its membership, and the job holds the count
C19_Witness ==
    \E s \in Syncers :
        /\ syn[s].pc = "idle" /\ syn[s].outcome.kind = "raised"
        /\ syn[s].outcome.error = "db_error"
        /\ syn[s].outcome.stats.candidates_created = 1
        /\ LET job == db.ashby_sync_jobs[syn[s].outcome.job_id]
           IN  /\ job.status = "failed" /\ job.error_message = "db_error"
               /\ job.candidates_created = 1
        /\ \E i \in 1..Len(db.PeopleSources) :
                db.PeopleSources[i].source_metadata.ashby_candidate_id # ""

-----------------------------------------------------------------------------
(* the freshness skip *)

\* an unforced scrape could start here for a URL whose person was scraped
\* within the window
FreshUrls == { url \in cap.urls : is_recently_scraped(db, normalize_linkedin_url(url)) }

\* C20: a scrape that is not forced, for a URL whose person was refreshed
\* within the window, fetches nothing and changes nothing in the store, its
\* result is the skip, and the job counters of the bulk scrape do not count it
\* as failed; a forced scrape goes on to the fetch.
C20_SkipIsNoFailure ==
    [][\A w \in Scrapers :
        (scr[w].pc = "idle" /\ scr'[w] # scr[w])
            => /\ (scr'[w].pc = "idle" /\ Skipped(scr'[w].result))
                    => /\ db' = db
                       /\ FreshUrls # {}
                       /\ scr'[w].job.failed = scr[w].job.failed
               /\ (scr'[w].pc = "fetch" /\ ~scr'[w].force) => scr'[w].url \notin FreshUrls
               /\ scr'[w].pc \in {"idle", "fetch"}]_vars

\* a forced scrape of a URL scraped within the window is at its fetch
C20_ForcedFetch ==
    \E w \in Scrapers :
        scr[w].pc = "fetch" /\ scr[w].force /\ scr[w].url \in FreshUrls

\* an unforced scrape of such a URL was skipped
C20_Skipped ==
    \E w \in Scrapers : scr[w].pc = "idle" /\ Skipped(scr[w].result)

-----------------------------------------------------------------------------
(* the life of a job record, the sweep *)

\* C14: the status of a job changes only from running to completed or from
\* running to failed; the status of a completed or failed job never changes,
\* whatever a sweep and a run still at work on the job do in between.
C14_StatusFinal ==
    [][\A i \in 1..Len(db.ashby_sync_jobs) :
        LET before == db.ashby_sync_jobs[i].status
            after == db'.ashby_sync_jobs[i].status
        IN  /\ before = "running" => after \in {"running", "completed", "failed"}
            /\ before \in {"completed", "failed"} => after = before]_vars

\* C15: the sweep of an invocation marks failed, with the timeout message,
\* exactly the jobs that are running and were started more than the max age
\* ago; every other job record is left as it was; the invocation has no job
\* record of its own yet, and creates it in its next step.
C15_SweepExactlyStale ==
    [][\A s \in Syncers :
        /\ (syn[s].pc = "sweep" /\ syn'[s].pc # "sweep")
            => /\ syn'[s].pc = "job"
               /\ syn[s].job_id = 0 /\ syn'[s].job_id = 0
               /\ Len(db'.ashby_sync_jobs) = Len(db.ashby_sync_jobs)
               /\ \A i \in 1..Len(db.ashby_sync_jobs) :
                    LET job == db.ashby_sync_jobs[i]
                    IN  IF job.status = "running" /\ now - job.started_at > StaleMinutes
                        THEN db'.ashby_sync_jobs[i]
                                = [job EXCEPT !.status = "failed",
                                              !.error_message = "timeout"]
                        ELSE db'.ashby_sync_jobs[i] = job
        /\ (syn[s].pc = "job" /\ syn'[s].pc # "job")
            => /\ Len(db'.ashby_sync_jobs) = Len(db.ashby_sync_jobs) + 1
               /\ syn'[s].job_id = Len(db'.ashby_sync_jobs)
               /\ db'.ashby_sync_jobs[syn'[s].job_id].status = "running"
               /\ db'.ashby_sync_jobs[syn'[s].job_id].started_at = now]_vars

\* an invocation has swept the job of a run that started 31 minutes before and
\* is still at work, and has no job of its own yet
C15_Witness ==
    \E s, t \in Syncers :
        /\ syn[s].pc = "job" /\ syn[s].job_id = 0
        /\ syn[t].job_id # 0 /\ syn[t].pc # "idle"
        /\ db.ashby_sync_jobs[syn[t].job_id].status = "failed"
        /\ db.ashby_sync_jobs[syn[t].job_id].error_message = "timeout"
        /\ now - db.ashby_sync_jobs[syn[t].job_id].started_at = StaleMinutes + 1

-----------------------------------------------------------------------------
(* the active integration *)

ActiveIntegrations(d) ==
    { i \in 1..Len(d.ashby_integrations) : d.ashby_integrations[i].is_active }

\* C16: at most one integration is marked active, in every state of any
\* number of save_integration calls, two of them at a time.
C16_OneActiveIntegration == Cardinality(ActiveIntegrations(db)) <= 1

\* two calls of save_integration have returned and both their integrations
\* are active
C16_TwoActive ==
    \E c, k \in Connectors :
        /\ c # k /\ con[c].pc = "idle" /\ con[k].pc = "idle"
        /\ {con[c].integration_id, con[k].integration_id} \subseteq ActiveIntegrations(db)
        /\ con[c].integration_id # con[k].integration_id

-----------------------------------------------------------------------------
(* the provider's failure, the refresh status of a person *)

\* C21: when the provider call fails, scrape_single_profile returns a failed
\* result that carries the cause, and the store is as it was: no person, no
\* attribute set and no membership is changed.
C21_FetchFailureChangesNothing ==
    [][\A w \in Scrapers :
        (scr[w].pc = "fetch" /\ scr'[w].pc = "idle")
            => /\ db' = db
               /\ ~Success(scr'[w].result) /\ ~Skipped(scr'[w].result)
               /\ scr'[w].result.message = "provider_error"
               /\ scr'[w].result.user_id = 0]_vars

\* a fetch has failed while a scraped person is in the store
C21_Witness ==
    \E w \in Scrapers :
        /\ scr[w].pc = "idle" /\ scr[w].result.message = "provider_error"
        /\ \E i \in 1..Len(db.People) : db.People[i].scrape_status = "scraped"

\* C22: no step changes the status of a person in the store from scraped or
\* failed to pending; a pending status is written only with a new person row.
C22_NeverBackToPending ==
    [][\A i \in 1..Len(db'.People) :
        db'.People[i].scrape_status = "pending"
            => \/ i > Len(db.People)
               \/ db.People[i].scrape_status = "pending"]_vars

\* a manual add has found a person that is scraped or failed and added a
\* membership for it
C22_Witness ==
    \E a \in Adders, i \in 1..Len(db.People) :
        /\ add[a].pc = "idle" /\ add[a].result = 201
        /\ db.People[i].scrape_status \in {"scraped", "failed"}
        /\ \E m \in 1..Len(db.PeopleSources) :
                /\ db.PeopleSources[m].user_id = i
                /\ db.PeopleSources[m].source_metadata = ManualMetadata
        /\ \A w \in Scrapers : scr[w].pc = "idle"
        /\ Len(db.People) = 1

\* the changes of a person's status the state machine names
StatusChanges ==
    { <<"pending", "scraped">>, <<"pending", "failed">>,
      <<"failed", "scraped">>, <<"scraped", "scraped">> }

\* C23: every change of the status of a person in the store is one of
\* pending -> scraped, pending -> failed, failed -> scraped, scraped -> scraped;
\* a scraped person never becomes failed.
C23_StatusMachine ==
    [][\A i \in 1..Len(db.People) :
        LET before == db.People[i].scrape_status
            after == db'.People[i].scrape_status
        IN  before # after => <<before, after>> \in StatusChanges]_vars

\* a scraped person has been marked failed by a scrape whose document had no
\* profile id
C23_ScrapedBecameFailed ==
    \E w \in Scrapers, i \in 1..Len(db.People) :
        /\ scr[w].pc = "idle" /\ scr[w].result.message = "no_profile_id"
        /\ db.People[i].scrape_status = "failed"
        /\ db.People[i].linkedin_details # 0

-----------------------------------------------------------------------------
(* the document without profile id, the URLs an ingest uses *)

\* the tables of a person's attribute sets
AttributeTables == {"LinkedinInfo", "Geo", "Educations", "Positions", "Skills", "Honors"}

\* C24: when the document has no profile id, the person registered for the
\* identity of the URL (its normalized form) is marked failed, a failed person
\* is created only when none is registered, the call fails naming the reason,
\* and no attribute row is written.
C24_NoIdMarksRegisteredPerson ==
    [][\A w \in Scrapers :
        (scr[w].pc = "insert" /\ Docs[scr[w].doc].id = 0 /\ scr'[w].pc = "idle")
            => LET registered == PeopleByUrl(db, {normalize_linkedin_url(scr[w].url)})
               IN  /\ scr'[w].result.message = "no_profile_id"
                   /\ ~Success(scr'[w].result)
                   /\ \A t \in AttributeTables : db'[t] = db[t]
                   /\ IF registered # {}
                      THEN /\ Len(db'.People) = Len(db.People)
                           /\ \A i \in registered : db'.People[i].scrape_status = "failed"
                      ELSE /\ Len(db'.People) = Len(db.People) + 1
                           /\ db'.People[Len(db'.People)].scrape_status = "failed"]_vars

\* the part of C24 the code keeps: the call fails naming the reason, writes no
\* attribute row, and touches People only
C24_NoIdWritesNoAttribute ==
    [][\A w \in Scrapers :
        (scr[w].pc = "insert" /\ Docs[scr[w].doc].id = 0 /\ scr'[w].pc = "idle")
            => /\ scr'[w].result.message = "no_profile_id"
               /\ \A t \in DOMAIN db \ {"People"} : db'[t] = db[t]]_vars

\* C25: every lookup of an ingest and every identity value it stores, the key
\* of a person or the URL of a membership, is the normalized form of the input
\* URL; the raw input URL finds nothing and is stored nowhere.
C25_OnlyNormalizedUrl ==
    [][\A w \in Scrapers :
        (scr[w].pc \in {"insert", "write"} /\ scr'[w] # scr[w])
            => LET key == normalize_linkedin_url(scr[w].url)
               IN  /\ \A i \in 1..Len(db'.People) :
                        (i > Len(db.People) \/ db'.People[i] # db.People[i])
                            => db'.People[i].canonical_linkedin_url = key
                   /\ \A m \in 1..Len(db'.PeopleSources) :
                        (m > Len(db.PeopleSources)
                                \/ db'.PeopleSources[m] # db.PeopleSources[m])
                            => db'.PeopleSources[m].linkedin_url = key
                   /\ scr'[w].pc = "write"
                        => IF PeopleByUrl(db, {key}) = {} THEN scr'[w].existing = 0
                           ELSE scr'[w].existing \in PeopleByUrl(db, {key})]_vars

-----------------------------------------------------------------------------
(* the membership of an ingest with a source *)

\* an ingest with a source has just succeeded
IngestSucceeded(w) ==
    /\ scr[w].pc = "write" /\ scr[w].source_id # 0
    /\ scr'[w].pc = "idle" /\ Success(scr'[w].result)

\* C26: after a successful ingest called with a source_id, the resolved person
\* has a membership in that source whose URL is the person's key: the
\* membership there was is updated, a missing one is added.
C26_MembershipAfterIngest ==
    [][\A w \in Scrapers :
        IngestSucceeded(w)
            => LET user_id == scr'[w].result.user_id
               IN  \E m \in MembershipsOf(db', user_id, scr[w].source_id) :
                        db'.PeopleSources[m].linkedin_url
                            = db'.People[user_id].canonical_linkedin_url]_vars

\* the part of C26 the code keeps: the membership the person has in the source
\* carries the person's key after the ingest
C26_ExistingMembershipSynchronized ==
    [][\A w \in Scrapers :
        IngestSucceeded(w)
            => LET user_id == scr'[w].result.user_id
               IN  \A m \in MembershipsOf(db, user_id, scr[w].source_id) :
                        db'.PeopleSources[m].linkedin_url
                            = db'.People[user_id].canonical_linkedin_url]_vars

\* the membership rows step 9 of insert_profile_data can reach: those of the
\* source with the raw or the normalized URL, and that of the person
UpdateTargets(w) ==
    LET ps == db.PeopleSources
        user_id == IF scr[w].existing # 0 THEN scr[w].existing ELSE Len(db.People) + 1
    IN  { m \in 1..Len(ps) :
            /\ ps[m].source_id = scr[w].source_id
            /\ \/ ps[m].linkedin_url
                    \in {scr[w].url, normalize_linkedin_url(scr[w].url)}
               \/ ps[m].user_id = user_id }

\* C29: an ingest whose membership update finds no membership row to update
\* does not end as a success: the missing target is reported to the caller.
C29_MissingTargetReported ==
    [][\A w \in Scrapers :
        (/\ scr[w].pc = "write" /\ scr[w].source_id # 0 /\ scr'[w].pc = "idle"
         /\ UpdateTargets(w) = {})
            => ~Success(scr'[w].result)]_vars

-----------------------------------------------------------------------------
(* the Master source *)

\* ids of the sources named Master
MasterSources(d) == { i \in 1..Len(d.Sources) : d.Sources[i].name = "Master" }

\* C27: no membership row has the synthetic Master source as its source, in
\* any state the operations on the registry reach.
C27_NoMasterMembership ==
    \A m \in 1..Len(db.PeopleSources) :
        db.PeopleSources[m].source_id \notin MasterSources(db)

\* the part of C27 the code keeps: add_candidate_to_source for the Master
\* source is refused with 400 and writes nothing
C27_AddToMasterRefused ==
    [][\A a \in Adders :
        (add'[a] # add[a] /\ add'[a].pc = "write")
            => add'[a].source_id \notin MasterSources(db)]_vars

\* a run of the script has added a person to the Master source
C27_ScriptAddedToMaster ==
    \E p \in Scripts, m \in 1..Len(db.PeopleSources) :
        /\ scp[p].pc = "idle" /\ scp[p].result = "added"
        /\ db.PeopleSources[m].source_id = MasterId
        /\ db.PeopleSources[m].source_metadata = ScriptMetadata

-----------------------------------------------------------------------------
(* the listing of the Master source *)

\* the LinkedinInfo columns of a person without a LinkedinInfo row
NoInfo == [firstname |-> "NULL", lastname |-> "NULL", headline |-> "NULL"]

\* LEFT JOIN LinkedinInfo and the GROUP BY on its three columns: the groups
\* of one person
InfoGroups(d, user_id) ==
    LET rows == { r \in d.LinkedinInfo : r.user_id = user_id }
    IN  IF rows = {} THEN {NoInfo}
        ELSE { [firstname |-> r.firstName, lastname |-> r.lastName,
                headline |-> r.headline] : r \in rows }

\* LEFT JOIN PeopleSources: the membership rows of a person
JoinedMemberships(d, user_id) ==
    { m \in 1..Len(d.PeopleSources) : d.PeopleSources[m].user_id = user_id }

\* source_detail for the source named Master: one row per group, with the
\* names of the joined sources not named Master, the source ids of all the
\* joined memberships, and the orphaned mark of COUNT(ps.id) = 0
MasterListing(d) ==
    UNION { { [user_id |-> i, li |-> g,
               sources |-> { d.Sources[d.PeopleSources[m].source_id].name :
                               m \in { k \in JoinedMemberships(d, i) :
                                   d.Sources[d.PeopleSources[k].source_id].name # "Master" } },
               source_ids |-> { d.PeopleSources[m].source_id : m \in JoinedMemberships(d, i) },
               orphaned |-> (JoinedMemberships(d, i) = {})] : g \in InfoGroups(d, i) }
            : i \in 1..Len(d.People) }

\* the sources not named Master that have a membership of the person
RealSourcesOf(d, user_id) ==
    { sid \in (1..Len(d.Sources)) \ MasterSources(d) : IsMember(d, user_id, sid) }

\* the listing has exactly one entry for every person
C28_ListedOnce ==
    \A i \in 1..Len(db.People) :
        Cardinality({ e \in MasterListing(db) : e.user_id = i }) = 1

\* an entry lists the ids and the names of exactly the real sources of its person
C28_RealSources ==
    \A e \in MasterListing(db) :
        /\ e.source_ids = RealSourcesOf(db, e.user_id)
        /\ e.sources = { db.Sources[sid].name : sid \in RealSourcesOf(db, e.user_id) }

\* an entry is marked orphaned exactly when its person has no membership
C28_OrphanedFlag ==
    \A e \in MasterListing(db) :
        e.orphaned <=> (\A m \in 1..Len(db.PeopleSources) :
                          db.PeopleSources[m].user_id # e.user_id)

\* C28: in every reachable store the Master listing has every person exactly
\* once, whatever number of memberships and LinkedinInfo rows the person has,
\* each entry lists exactly the sources not named Master that have a
\* membership of the person, and an entry is marked orphaned exactly when no
\* membership references the person.
C28_MasterListing ==
    /\ C28_ListedOnce
    /\ C28_RealSources
    /\ C28_OrphanedFlag

\* a person with two LinkedinInfo rows of different names
C28_TwoInfoRows ==
    \E r1, r2 \in db.LinkedinInfo :
        /\ r1.user_id = r2.user_id /\ r1.id # r2.id
        /\ r1.lastName # r2.lastName

-----------------------------------------------------------------------------
(* a sync run without an active integration *)

\* no row of ashby_integrations is active
NoActiveIntegration(d) ==
    \A i \in 1..Len(d.ashby_integrations) : ~d.ashby_integrations[i].is_active

\* C30: a call of sync_candidates made when no integration is active raises
\* and leaves the store as it was: no job row is created, no source is
\* created and the sweep marks no job.
C30_NoIntegrationRaisesUnchanged ==
    [][\A s \in Syncers :
        (syn[s].pc = "idle" /\ syn'[s] # syn[s] /\ NoActiveIntegration(db))
            => /\ syn'[s].pc = "idle"
               /\ syn'[s].outcome.kind = "raised"
               /\ syn'[s].outcome.error = "no_integration"
               /\ syn'[s].outcome.job_id = 0
               /\ db' = db]_vars

\* a call has raised for the missing integration on a store that holds a
\* stale running job, which is still running, and no ATS source
C30_Witness ==
    \E s \in Syncers :
        /\ syn[s].pc = "idle" /\ syn[s].outcome.error = "no_integration"
        /\ NoActiveIntegration(db)
        /\ db.ashby_sync_jobs # << >>
        /\ db.ashby_sync_jobs[1].status = "running"
        /\ now - db.ashby_sync_jobs[1].started_at > StaleMinutes
        /\ Len(db.Sources) = Len(InitDb.Sources)

-----------------------------------------------------------------------------
(* empty and blank identity keys *)

\* C31: no person's canonical key is the empty string or a string of blanks
\* only, in any state that manual adds, sync runs and ingestion reach.
C31_NoBlankKey ==
    \A i \in 1..Len(db.People) :
        strip(db.People[i].canonical_linkedin_url) # EmptyStr

\* the empty key a manual add of a blank URL has stored
C31_AddStoredEmptyKey ==
    \E a \in Adders :
        /\ add[a].pc = "idle" /\ add[a].result = 201
        /\ \E i \in 1..Len(db.People) :
            /\ db.People[i].canonical_linkedin_url = EmptyStr
            /\ IsMember(db, i, ManualId)

\* the blank key a sync run has stored for a candidate whose link is a blank
C31_SyncStoredBlankKey ==
    \E s \in Syncers, i \in 1..Len(db.People) :
        /\ syn[s].action = "created" /\ syn[s].user_id = i
        /\ db.People[i].canonical_linkedin_url = Blank

\* the blank key an ingestion of a blank URL has stored
C31_IngestStoredBlankKey ==
    \E w \in Scrapers, i \in 1..Len(db.People) :
        /\ scr[w].pc = "idle" /\ Success(scr[w].result) /\ scr[w].result.user_id = i
        /\ db.People[i].canonical_linkedin_url = Blank

-----------------------------------------------------------------------------
(* the retry of a failed ingestion *)

\* the persons an ingestion of the URL finds: by the URL or by its normal form
PersonsOfUrl(d, url) == PeopleByUrl(d, {url, normalize_linkedin_url(url)})

\* C32: whenever the person of a URL is in status failed, an ingestion of
\* that URL with force = false passes the freshness check of
\* scrape_single_profile and goes on to the provider.
C32_FailedIsRetried ==
    \A url \in cap.urls :
        (\E i \in PersonsOfUrl(db, url) : db.People[i].scrape_status = "failed")
            => ~is_recently_scraped(db, normalize_linkedin_url(url))

\* an ingestion without force has been skipped as recent while the one person
\* of the store is in status failed
C32_FailedRetrySkipped ==
    \E w \in Scrapers :
        /\ scr[w].pc = "idle" /\ Skipped(scr[w].result)
        /\ Len(db.People) = 1
        /\ db.People[1].scrape_status = "failed"

-----------------------------------------------------------------------------
(* a full sync repeated *)

\* the (person, source) pairs of the memberships
MembershipPairs(d) ==
    { <<d.PeopleSources[m].user_id, d.PeopleSources[m].source_id>> :
        m \in 1..Len(d.PeopleSources) }

\* the first run of the caller has completed and has created or updated the
\* one candidate of the list
FirstRunDone(d) ==
    /\ d.ashby_sync_jobs # << >>
    /\ d.ashby_sync_jobs[1].status = "completed"
    /\ d.ashby_sync_jobs[1].candidates_created
            + d.ashby_sync_jobs[1].candidates_updated = 1

\* C33: when a full sync has processed the candidate list and a second full
\* sync, started after the first returned, processes the same list, the
\* second run creates no person and no (person, source) membership pair,
\* whether the candidate has an ATS id or not, a LinkedIn link or not.
C33_SecondRunCreatesNothing ==
    [][\A s \in Syncers :
        (syn[s].pc = "write" /\ syn[s].job_id = 2 /\ FirstRunDone(db))
            => /\ Len(db'.People) = Len(db.People)
               /\ MembershipPairs(db') = MembershipPairs(db)]_vars

\* the part that holds: a candidate with an ATS id or a LinkedIn link
C33_IdentifiedCandidateConverges ==
    [][\A s \in Syncers :
        (/\ syn[s].pc = "write" /\ syn[s].job_id = 2 /\ FirstRunDone(db)
         /\ cap.cands # {NoIdCandidate})
            => /\ Len(db'.People) = Len(db.People)
               /\ MembershipPairs(db') = MembershipPairs(db)]_vars

\* the second run has created a second person for the one candidate
C33_SecondRunCreated ==
    \E s \in Syncers :
        /\ syn[s].job_id = 2 /\ syn[s].action = "created"
        /\ FirstRunDone(db)
        /\ Len(db.People) = 2

-----------------------------------------------------------------------------
(* one candidate, one person *)

\* the persons that hold a membership in a source of the ATS with the ATS id
PersonsOfCandidate(d, id) ==
    { d.PeopleSources[m].user_id :
        m \in { k \in 1..Len(d.PeopleSources) :
                /\ d.PeopleSources[k].source_id \in AshbySources(d)
                /\ d.PeopleSources[k].source_metadata.ashby_candidate_id = id } }

\* C34: in every state two concurrent sync runs of one integration reach, at
\* most one person holds a membership in the ATS source with a given ATS
\* candidate id.
C34_OnePersonPerCandidate ==
    \A c \in cap.cands : c.id # "" => Cardinality(PersonsOfCandidate(db, c.id)) <= 1

\* the part that holds: a candidate with a LinkedIn link is one person
C34_LinkedCandidateOnePerson ==
    \A c \in cap.cands :
        (c.id # "" /\ Truthy(CandidateUrl(c)))
            => Cardinality(PersonsOfCandidate(db, c.id)) <= 1

\* both runs have returned and each has created a person for the candidate
C34_TwoPersons ==
    /\ \A s \in Syncers : syn[s].pc = "idle" /\ syn[s].outcome.kind = "returned"
    /\ \A s \in Syncers : syn[s].outcome.stats.candidates_created = 1
    /\ Len(db.People) = 2

-----------------------------------------------------------------------------
(* the job of a run that has ended *)

\* C35: when a call of sync_candidates that created a job has returned or
\* raised, the job it created is in status completed or failed, whichever
\* step after the job's creation failed.
C35_EndedRunJobFinal ==
    \A s \in Syncers :
        (syn[s].pc = "idle" /\ syn[s].outcome.job_id # 0)
            => db.ashby_sync_jobs[syn[s].outcome.job_id].status \in {"completed", "failed"}

\* the part that holds: a failure inside the try block (provider request,
\* missing cursor, candidate processing) leaves the job failed, a return
\* leaves it completed
C35_FailureInTryJobFinal ==
    \A s \in Syncers :
        (/\ syn[s].pc = "idle" /\ syn[s].outcome.job_id # 0
         /\ syn[s].outcome.error \in {"", "api_error", "token_expired", "no_cursor",
                                      "db_error"})
            => db.ashby_sync_jobs[syn[s].outcome.job_id].status =
                    (IF syn[s].outcome.kind = "returned" THEN "completed" ELSE "failed")

\* a call has raised and its job is still running
C35_RaisedJobRunning ==
    \E s \in Syncers :
        /\ syn[s].pc = "idle" /\ syn[s].outcome.kind = "raised"
        /\ syn[s].outcome.job_id # 0
        /\ db.ashby_sync_jobs[syn[s].outcome.job_id].status = "running"

-----------------------------------------------------------------------------
(* the new candidate's person and membership *)

\* C36: a step of process_candidate for a candidate that matched no person
\* either inserts the pending person together with its membership in the ATS
\* source and answers 'created', or leaves the store as it was and answers
\* 'skipped'.
C36_PersonAndMembershipTogether ==
    [][\A s \in Syncers :
        (syn[s].pc = "write" /\ syn[s].existing = 0 /\ syn'[s] # syn[s])
            => \/ /\ syn'[s].action = "created"
                  /\ Len(db'.People) = Len(db.People) + 1
                  /\ syn'[s].user_id = Len(db'.People)
                  /\ db'.People[Len(db'.People)].scrape_status = "pending"
                  /\ Cardinality(MembershipsOf(db', Len(db'.People), syn[s].source_id)) = 1
                  /\ Len(db'.PeopleSources) = Len(db.PeopleSources) + 1
               \/ /\ syn'[s].action = "skipped"
                  /\ syn'[s].user_id = 0
                  /\ db' = db]_vars

\* of two runs that found no person for the candidate, one has created the
\* person with its membership and the other has been refused and has skipped
C36_Witness ==
    \E s, t \in Syncers :
        /\ syn[s].action = "created" /\ syn[t].action = "skipped" /\ syn[t].user_id = 0
        /\ Len(db.People) = 1 /\ Len(db.PeopleSources) = 1
        /\ db.PeopleSources[1].user_id = 1

-----------------------------------------------------------------------------
(* the page loop of the client *)

\* the loop ends at the first response without more data: no request follows
C37_EndsAtLastPage ==
    [][\A s \in Syncers :
        (syn[s].pc = "resume" /\ ~syn[s].resp.more /\ syn'[s] # syn[s])
            => /\ syn'[s].pc = "complete"
               /\ syn'[s].requests = syn[s].requests]_vars

\* more data without a next cursor ends the run with an API error
C37_NoCursorIsError ==
    [][\A s \in Syncers :
        (/\ syn[s].pc = "resume" /\ syn[s].resp.more /\ ~syn[s].resp.cursor
         /\ syn'[s] # syn[s])
            => /\ syn'[s].pc = "idle"
               /\ syn'[s].outcome.kind = "raised"
               /\ syn'[s].outcome.error = "no_cursor"]_vars

\* the first request carries no cursor, every later request the cursor of
\* the response before it
C37_RequestCarriesLastCursor ==
    [][\A s \in Syncers :
        (syn[s].pc = "request" /\ syn'[s].requests = syn[s].requests + 1)
            => syn'[s].sent = syn[s].requests]_vars

\* the engine receives the sync token of the last response
C37_TokenHandedOver ==
    [][\A s \in Syncers :
        (syn[s].pc = "resume" /\ ~syn[s].resp.more /\ syn'[s] # syn[s])
            => FinalSyncToken(syn[s].resp.token) = syn[s].resp.token]_vars

\* C37: the page loop of a full or incremental sync ends at the first
\* response without more data and hands that response's sync token to the
\* engine; a response with more data and no next cursor ends the run with an
\* API error; every request after the first carries the cursor of the
\* response before it.
C37_PageLoop ==
    /\ C37_EndsAtLastPage
    /\ C37_TokenHandedOver
    /\ C37_NoCursorIsError
    /\ C37_RequestCarriesLastCursor

\* a run has ended its loop at a second response that carried a sync token
C37_LoopEndedWithToken ==
    \E s \in Syncers :
        /\ syn[s].pc = "complete" /\ syn[s].requests = 2 /\ syn[s].sent = 1
        /\ syn[s].resp.token # ""

-----------------------------------------------------------------------------
(* the type of a job and the protocol of its run *)

\* the type recorded on the job of the run s
JobTypeOf(s) == db.ashby_sync_jobs[syn[s].job_id].job_type

\* C38: once a run has chosen its protocol, the type recorded on its job is
\* 'incremental' exactly when the protocol is the incremental one, and
\* 'initial' exactly when it is the full one.
C38_JobTypeIsProtocol ==
    \A s \in Syncers :
        syn[s].protocol # ""
            => /\ JobTypeOf(s) = "incremental" <=> syn[s].protocol = "incremental"
               /\ JobTypeOf(s) = "initial" <=> syn[s].protocol = "full"

\* the part that holds: the type is the protocol whenever the integration
\* has a stored sync token
C38_JobTypeIsProtocolWithToken ==
    \A s \in Syncers :
        (syn[s].protocol # "" /\ syn[s].token # "")
            => /\ JobTypeOf(s) = "incremental" <=> syn[s].protocol = "incremental"
               /\ JobTypeOf(s) = "initial" <=> syn[s].protocol = "full"

\* a run requests pages by the full protocol under a job of type incremental
C38_IncrementalJobFullSync ==
    \E s \in Syncers :
        /\ syn[s].pc = "find" /\ syn[s].protocol = "full"
        /\ JobTypeOf(s) = "incremental"

-----------------------------------------------------------------------------
(* the LinkedinInfo record of a scraped person *)

\* the LinkedinInfo rows of a person
InfoRowsOf(d, user_id) == { r \in d.LinkedinInfo : r.user_id = user_id }

\* C39: in every reachable state a person in status scraped owns exactly one
\* LinkedinInfo row, and the row's name fields are those of the document of
\* the person's latest successful ingestion.
C39_OneInfoPerScrapedPerson ==
    \A i \in 1..Len(db.People) :
        db.People[i].scrape_status = "scraped"
            => /\ Cardinality(InfoRowsOf(db, i)) = 1
               /\ \A r \in InfoRowsOf(db, i) :
                    /\ r.firstName = Docs[db.People[i].linkedin_details].firstName
                    /\ r.lastName = Docs[db.People[i].linkedin_details].lastName
                    /\ r.headline = Docs[db.People[i].linkedin_details].headline

\* two persons were ingested with documents of one profile id: both are
\* scraped and the first has no LinkedinInfo row left
C39_PersonLostInfo ==
    /\ Len(db.People) = 2
    /\ \A i \in 1..2 : db.People[i].scrape_status = "scraped"
    /\ InfoRowsOf(db, 1) = {}
    /\ InfoRowsOf(db, 2) # {}

\* one person was ingested again with a document of another profile id and
\* owns two LinkedinInfo rows
C39_PersonWithTwoInfos ==
    \E i \in 1..Len(db.People) :
        /\ db.People[i].scrape_status = "scraped"
        /\ Cardinality(InfoRowsOf(db, i)) = 2

-----------------------------------------------------------------------------
(* normalisation applied twice *)

\* C40: the key normalize_linkedin_url returns for a URL is a fixed point of
\* normalize_linkedin_url, for every variant form of a profile URL.
C40_NormalizeIdempotent ==
    nrm.pc = "out" => normalize_linkedin_url(nrm.ka) = nrm.ka

\* the part that holds: the key of a URL that has no "/" right before its
\* query string is a fixed point
C40_IdempotentWithoutSlashQuery ==
    (nrm.pc = "out" /\ nrm.a \notin { Variant(name, sc, w, TRUE, TRUE) :
                                        name \in ProfileNames, sc \in BOOLEAN, w \in BOOLEAN })
        => normalize_linkedin_url(nrm.ka) = nrm.ka

\* a key that ends with "/" has been returned, and normalizing it again
\* removes the "/"
C40_KeyWithTrailingSlash ==
    /\ nrm.pc = "out"
    /\ nrm.ka # EmptyStr /\ nrm.ka[Len(nrm.ka)] = "/"
    /\ normalize_linkedin_url(nrm.ka) = rstrip(nrm.ka, "/")

====
